---------------------------- MODULE Spec2Model ----------------------------
(***************************************************************************)
(* A model of the chessy rules engine (ChessBoard, MoveGenerator,          *)
(* ChessEngine) and of its search engine (ChessAI).                        *)
(*                                                                         *)
(* Squares are the integers 0..63, file * 8 + rank with file and rank in   *)
(* 0..7: this is the insertion order of the keys of a Position object      *)
(* (a1, a2, .., a8, b1, ..), the order in which Object.entries visits it.  *)
(* null / undefined are modelled by NoPiece, NoSquare, "none" and FALSE.   *)
(***************************************************************************)
EXTENDS Integers, Sequences, FiniteSets, TLC

VARIABLES
    gameState,   \* ChessEngine.gameState, or the GameState a caller holds
    fenHistory,  \* ChessEngine.moveHistory: the position strings, for repetition
    arrays,      \* the heap of Move[] arrays; GameState.moveHistory refers into it
    snapshot,    \* the values getGameState() returned that the caller still holds
    lastCall,    \* the operation that ran last
    result,      \* its return value
    made,        \* the moves accepted since construction or the last reset
    config,              \* ChessAI.config
    transpositionTable,  \* ChessAI.transpositionTable
    killerMoves,         \* ChessAI.killerMoves
    historyTable,        \* ChessAI.historyTable
    timeUp               \* the depth at which the last getBestMove found the time up

aiVars == <<config, transpositionTable, killerMoves, historyTable, timeUp>>

vars == <<gameState, fenHistory, arrays, snapshot, lastCall, result, made,
          config, transpositionTable, killerMoves, historyTable, timeUp>>

----------------------------------------------------------------------------
(* types/chess: Piece, Move, GameState *)

NoSquare == 0 - 1

NoPiece == [type |-> "none", color |-> "none"]

Pc(t, c) == [type |-> t, color |-> c]

WP == Pc("pawn", "white")
WN == Pc("knight", "white")
WB == Pc("bishop", "white")
WR == Pc("rook", "white")
WQ == Pc("queen", "white")
WK == Pc("king", "white")
BP == Pc("pawn", "black")
BN == Pc("knight", "black")
BB == Pc("bishop", "black")
BR == Pc("rook", "black")
BQ == Pc("queen", "black")
BK == Pc("king", "black")

\* A Move value; the optional fields captured, promotion, castling and enPassant
\* are NoPiece, "none", "none" and FALSE when absent.
Mv(from, to, piece, captured, promotion, castling, enPassant) ==
    [from |-> from, to |-> to, piece |-> piece, captured |-> captured,
     promotion |-> promotion, castling |-> castling, enPassant |-> enPassant]

\* { from, to, piece }
Quiet(from, to, piece) == Mv(from, to, piece, NoPiece, "none", "none", FALSE)

\* { from, to, piece, captured }
Capture(from, to, piece, captured) ==
    Mv(from, to, piece, captured, "none", "none", FALSE)

Opponent(color) == IF color = "white" THEN "black" ELSE "white"

\* The value of a one-element set: The({e : x \in {v}}) is e, with x naming the
\* value v, computed once
The(S) == CHOOSE x \in S : TRUE

----------------------------------------------------------------------------
(* ChessBoard *)

FileOf(sq) == sq \div 8
RankOf(sq) == sq % 8

squareToCoordinates(sq) == [file |-> FileOf(sq), rank |-> RankOf(sq)]

coordinatesToSquare(file, rank) ==
    IF file < 0 \/ file > 7 \/ rank < 0 \/ rank > 7
    THEN NoSquare
    ELSE file * 8 + rank

\* Sq(file, rank) with file 0..7 for a..h and rank 1..8 as printed: Sq(4, 1) is e1.
Sq(file, rank) == file * 8 + (rank - 1)

BackRank == <<"rook", "knight", "bishop", "queen", "king", "bishop", "knight", "rook">>

createInitialPosition ==
    [sq \in 0..63 |->
        CASE RankOf(sq) = 0 -> Pc(BackRank[FileOf(sq) + 1], "white")
          [] RankOf(sq) = 1 -> WP
          [] RankOf(sq) = 6 -> BP
          [] RankOf(sq) = 7 -> Pc(BackRank[FileOf(sq) + 1], "black")
          [] OTHER -> NoPiece]

----------------------------------------------------------------------------
(* MoveGenerator *)

PromotionKinds == <<"queen", "rook", "bishop", "knight">>

\* A faulty forward move, one square only even from the starting rank
PawnForward_OneSquare(gs, from, piece) ==
    LET direction == IF piece.color = "white" THEN 1 ELSE 0 - 1
        promotionRank == IF piece.color = "white" THEN 7 ELSE 0
        fc == squareToCoordinates(from)
        one == coordinatesToSquare(fc.file, fc.rank + direction)
    IN  IF one # NoSquare /\ gs.position[one] = NoPiece
        THEN IF fc.rank + direction = promotionRank
             THEN [i \in 1..4 |->
                     Mv(from, one, piece, NoPiece, PromotionKinds[i], "none", FALSE)]
             ELSE <<Quiet(from, one, piece)>>
        ELSE <<>>

\* The forward moves of a pawn: lines 52-75.
PawnForward(gs, from, piece) ==
    LET position == gs.position
        direction == IF piece.color = "white" THEN 1 ELSE 0 - 1
        startRank == IF piece.color = "white" THEN 1 ELSE 6
        promotionRank == IF piece.color = "white" THEN 7 ELSE 0
        fc == squareToCoordinates(from)
        one == coordinatesToSquare(fc.file, fc.rank + direction)
        two == coordinatesToSquare(fc.file, fc.rank + 2 * direction)
    IN  IF one # NoSquare /\ position[one] = NoPiece
        THEN IF fc.rank + direction = promotionRank
             THEN [i \in 1..4 |->
                     Mv(from, one, piece, NoPiece, PromotionKinds[i], "none", FALSE)]
             ELSE <<Quiet(from, one, piece)>> \o
                  (IF fc.rank = startRank /\ two # NoSquare /\ position[two] = NoPiece
                   THEN <<Quiet(from, two, piece)>>
                   ELSE <<>>)
        ELSE <<>>

\* The captures of a pawn towards one side, en passant included: lines 78-119.
PawnCaptures(gs, from, piece, fileOffset) ==
    LET position == gs.position
        direction == IF piece.color = "white" THEN 1 ELSE 0 - 1
        promotionRank == IF piece.color = "white" THEN 7 ELSE 0
        fc == squareToCoordinates(from)
        captureSquare == coordinatesToSquare(fc.file + fileOffset, fc.rank + direction)
        targetPiece == position[captureSquare]
        capturedPawnSquare == coordinatesToSquare(fc.file + fileOffset, fc.rank)
        capturedPawn == IF capturedPawnSquare # NoSquare
                        THEN position[capturedPawnSquare] ELSE NoPiece
    IN  IF captureSquare = NoSquare THEN <<>>
        ELSE (IF targetPiece # NoPiece /\ targetPiece.color # piece.color
              THEN IF fc.rank + direction = promotionRank
                   THEN [i \in 1..4 |->
                           Mv(from, captureSquare, piece, targetPiece,
                              PromotionKinds[i], "none", FALSE)]
                   ELSE <<Capture(from, captureSquare, piece, targetPiece)>>
              ELSE <<>>)
             \o
             (IF captureSquare = gs.enPassantTarget /\ capturedPawn # NoPiece
              THEN <<Mv(from, captureSquare, piece, capturedPawn, "none", "none", TRUE)>>
              ELSE <<>>)

generatePawnMoves(gs, from, piece) ==
    PawnForward(gs, from, piece)
      \o PawnCaptures(gs, from, piece, 0 - 1)
      \o PawnCaptures(gs, from, piece, 1)

\* One ray of a sliding piece from its i-th square on: the loop of lines 145-162.
RECURSIVE Ray(_, _, _, _, _, _)
Ray(position, from, piece, fileDir, rankDir, i) ==
    LET toSquare == coordinatesToSquare(FileOf(from) + i * fileDir,
                                        RankOf(from) + i * rankDir)
        targetPiece == position[toSquare]
    IN  IF i >= 8 \/ toSquare = NoSquare THEN <<>>
        ELSE IF targetPiece = NoPiece
             THEN <<Quiet(from, toSquare, piece)>>
                    \o Ray(position, from, piece, fileDir, rankDir, i + 1)
             ELSE IF targetPiece.color # piece.color
                  THEN <<Capture(from, toSquare, piece, targetPiece)>>
                  ELSE <<>>

RECURSIVE SlideFrom(_, _, _, _, _)
SlideFrom(position, from, piece, directions, d) ==
    IF d > Len(directions) THEN <<>>
    ELSE Ray(position, from, piece, directions[d][1], directions[d][2], 1)
           \o SlideFrom(position, from, piece, directions, d + 1)

generateSlidingMoves(gs, from, piece, directions) ==
    SlideFrom(gs.position, from, piece, directions, 1)

RookDirections == <<<<0, 1>>, <<0, 0 - 1>>, <<1, 0>>, <<0 - 1, 0>>>>
BishopDirections == <<<<1, 1>>, <<1, 0 - 1>>, <<0 - 1, 1>>, <<0 - 1, 0 - 1>>>>
QueenDirections == RookDirections \o BishopDirections

generateRookMoves(gs, from, piece) ==
    generateSlidingMoves(gs, from, piece, RookDirections)

generateBishopMoves(gs, from, piece) ==
    generateSlidingMoves(gs, from, piece, BishopDirections)

generateQueenMoves(gs, from, piece) ==
    generateSlidingMoves(gs, from, piece, QueenDirections)

\* The moves of a piece that steps by fixed offsets: the loops of lines 178-192
\* (knight) and 208-222 (king).
RECURSIVE StepFrom(_, _, _, _, _)
StepFrom(position, from, piece, offsets, k) ==
    IF k > Len(offsets) THEN <<>>
    ELSE LET toSquare == coordinatesToSquare(FileOf(from) + offsets[k][1],
                                             RankOf(from) + offsets[k][2])
             targetPiece == position[toSquare]
         IN  (IF toSquare = NoSquare THEN <<>>
              ELSE IF targetPiece = NoPiece
                   THEN <<Quiet(from, toSquare, piece)>>
                   ELSE IF targetPiece.color # piece.color
                        THEN <<Capture(from, toSquare, piece, targetPiece)>>
                        ELSE <<>>)
             \o StepFrom(position, from, piece, offsets, k + 1)

KnightOffsets ==
    <<<<0 - 2, 0 - 1>>, <<0 - 2, 1>>, <<0 - 1, 0 - 2>>, <<0 - 1, 2>>,
      <<1, 0 - 2>>, <<1, 2>>, <<2, 0 - 1>>, <<2, 1>>>>

KingOffsets ==
    <<<<0 - 1, 0 - 1>>, <<0 - 1, 0>>, <<0 - 1, 1>>,
      <<0, 0 - 1>>, <<0, 1>>,
      <<1, 0 - 1>>, <<1, 0>>, <<1, 1>>>>

generateKnightMoves(gs, from, piece) ==
    StepFrom(gs.position, from, piece, KnightOffsets, 1)

Castle(from, to, piece, side) == Mv(from, to, piece, NoPiece, "none", side, FALSE)

\* A faulty generateCastlingMoves, which does not look for the rook
generateCastlingMoves_NoRook(gs, from, piece) ==
    LET position == gs.position
        castlingRights == gs.castlingRights
    IN  IF piece.color = "white" /\ from = Sq(4, 1)
        THEN (IF /\ castlingRights.whiteKingside
                 /\ position[Sq(5, 1)] = NoPiece /\ position[Sq(6, 1)] = NoPiece
              THEN <<Castle(from, Sq(6, 1), piece, "kingside")>> ELSE <<>>)
             \o
             (IF /\ castlingRights.whiteQueenside
                 /\ position[Sq(3, 1)] = NoPiece /\ position[Sq(2, 1)] = NoPiece
                 /\ position[Sq(1, 1)] = NoPiece
              THEN <<Castle(from, Sq(2, 1), piece, "queenside")>> ELSE <<>>)
        ELSE IF piece.color = "black" /\ from = Sq(4, 8)
        THEN (IF /\ castlingRights.blackKingside
                 /\ position[Sq(5, 8)] = NoPiece /\ position[Sq(6, 8)] = NoPiece
              THEN <<Castle(from, Sq(6, 8), piece, "kingside")>> ELSE <<>>)
             \o
             (IF /\ castlingRights.blackQueenside
                 /\ position[Sq(3, 8)] = NoPiece /\ position[Sq(2, 8)] = NoPiece
                 /\ position[Sq(1, 8)] = NoPiece
              THEN <<Castle(from, Sq(2, 8), piece, "queenside")>> ELSE <<>>)
        ELSE <<>>

generateCastlingMoves(gs, from, piece) ==
    LET position == gs.position
        castlingRights == gs.castlingRights
    IN  IF piece.color = "white" /\ from = Sq(4, 1)
        THEN (IF /\ castlingRights.whiteKingside
                 /\ position[Sq(5, 1)] = NoPiece /\ position[Sq(6, 1)] = NoPiece
                 /\ position[Sq(7, 1)] = WR
              THEN <<Castle(from, Sq(6, 1), piece, "kingside")>> ELSE <<>>)
             \o
             (IF /\ castlingRights.whiteQueenside
                 /\ position[Sq(3, 1)] = NoPiece /\ position[Sq(2, 1)] = NoPiece
                 /\ position[Sq(1, 1)] = NoPiece
                 /\ position[Sq(0, 1)] = WR
              THEN <<Castle(from, Sq(2, 1), piece, "queenside")>> ELSE <<>>)
        ELSE IF piece.color = "black" /\ from = Sq(4, 8)
        THEN (IF /\ castlingRights.blackKingside
                 /\ position[Sq(5, 8)] = NoPiece /\ position[Sq(6, 8)] = NoPiece
                 /\ position[Sq(7, 8)] = BR
              THEN <<Castle(from, Sq(6, 8), piece, "kingside")>> ELSE <<>>)
             \o
             (IF /\ castlingRights.blackQueenside
                 /\ position[Sq(3, 8)] = NoPiece /\ position[Sq(2, 8)] = NoPiece
                 /\ position[Sq(1, 8)] = NoPiece
                 /\ position[Sq(0, 8)] = BR
              THEN <<Castle(from, Sq(2, 8), piece, "queenside")>> ELSE <<>>)
        ELSE <<>>

generateKingMoves(gs, from, piece) ==
    StepFrom(gs.position, from, piece, KingOffsets, 1)
      \o generateCastlingMoves(gs, from, piece)

generatePieceMoves(gs, from, piece) ==
    CASE piece.type = "pawn" -> generatePawnMoves(gs, from, piece)
      [] piece.type = "rook" -> generateRookMoves(gs, from, piece)
      [] piece.type = "knight" -> generateKnightMoves(gs, from, piece)
      [] piece.type = "bishop" -> generateBishopMoves(gs, from, piece)
      [] piece.type = "queen" -> generateQueenMoves(gs, from, piece)
      [] piece.type = "king" -> generateKingMoves(gs, from, piece)
      [] OTHER -> <<>>

\* The body of the loop of generatePseudoLegalMoves for one square
PseudoFrom(gs, sq) ==
    IF gs.position[sq] # NoPiece /\ gs.position[sq].color = gs.activeColor
    THEN generatePieceMoves(gs, sq, gs.position[sq])
    ELSE <<>>

\* The loop over the squares of one file, from the given rank on
RECURSIVE PseudoOfFile(_, _, _)
PseudoOfFile(gs, file, rank) ==
    IF rank > 7 THEN <<>>
    ELSE PseudoFrom(gs, file * 8 + rank) \o PseudoOfFile(gs, file, rank + 1)

\* The loop of generatePseudoLegalMoves from the given file on: Object.entries
\* visits the squares file by file, a1..a8, b1..b8, ..
RECURSIVE PseudoOfFiles(_, _)
PseudoOfFiles(gs, file) ==
    IF file > 7 THEN <<>>
    ELSE PseudoOfFile(gs, file, 0) \o PseudoOfFiles(gs, file + 1)

generatePseudoLegalMoves(gs) == PseudoOfFiles(gs, 0)

\* A faulty handling of the special moves, which leaves the passed pawn on the board
SpecialMoves_PawnStays(position, move) ==
    LET white == move.piece.color = "white"
        rookFrom == IF move.castling = "kingside"
                    THEN (IF white THEN Sq(7, 1) ELSE Sq(7, 8))
                    ELSE (IF white THEN Sq(0, 1) ELSE Sq(0, 8))
        rookTo == IF move.castling = "kingside"
                  THEN (IF white THEN Sq(5, 1) ELSE Sq(5, 8))
                  ELSE (IF white THEN Sq(3, 1) ELSE Sq(3, 8))
    IN  IF move.castling # "none"
        THEN [position EXCEPT ![rookTo] = position[rookFrom],
                              ![rookFrom] = NoPiece]
        ELSE position

\* The rook's relocation on castling and the removal of the passed pawn on en
\* passant, written identically in MoveGenerator.makeMove (lines 285-303) and in
\* ChessEngine.applyMove (lines 75-93).
SpecialMoves(position, move) ==
    LET white == move.piece.color = "white"
        rookFrom == IF move.castling = "kingside"
                    THEN (IF white THEN Sq(7, 1) ELSE Sq(7, 8))
                    ELSE (IF white THEN Sq(0, 1) ELSE Sq(0, 8))
        rookTo == IF move.castling = "kingside"
                  THEN (IF white THEN Sq(5, 1) ELSE Sq(5, 8))
                  ELSE (IF white THEN Sq(3, 1) ELSE Sq(3, 8))
        p1 == IF move.castling # "none"
              THEN [position EXCEPT ![rookTo] = position[rookFrom],
                                    ![rookFrom] = NoPiece]
              ELSE position
        capturedPawnSquare == IF white THEN Sq(FileOf(move.to), 5)
                                       ELSE Sq(FileOf(move.to), 4)
    IN  IF move.enPassant
        THEN [p1 EXCEPT ![capturedPawnSquare] = NoPiece]
        ELSE p1

\* MoveGenerator.makeMove
MoveGenerator_makeMove(gs, move) ==
    LET p0 == [gs.position EXCEPT ![move.to] = move.piece, ![move.from] = NoPiece]
        p1 == SpecialMoves(p0, move)
        p2 == IF move.promotion # "none"
              THEN [p1 EXCEPT ![move.to] = Pc(move.promotion, move.piece.color)]
              ELSE p1
    IN  [gs EXCEPT !.position = p2, !.activeColor = Opponent(gs.activeColor)]

\* The first square, in the order of Object.entries, that holds the king of the
\* color, or NoSquare (null)
FirstKing(position, color) ==
    IF \E sq \in 0..63 : position[sq] = Pc("king", color)
    THEN CHOOSE sq \in 0..63 :
            /\ position[sq] = Pc("king", color)
            /\ \A before \in 0..(sq - 1) : position[before] # Pc("king", color)
    ELSE NoSquare

findKing(position, color) == FirstKing(position, color)

isInCheck(gs, color) ==
    \E kingSquare \in {findKing(gs.position, color)} :
       /\ kingSquare # NoSquare
       /\ \E opponentMoves \in
              {generatePseudoLegalMoves([gs EXCEPT !.activeColor = Opponent(color)])} :
             \E i \in 1..Len(opponentMoves) : opponentMoves[i].to = kingSquare

\* A faulty isLegalMove, which lets every pseudo-legal move pass
isLegalMove_Always(gs, move) == TRUE

\* A faulty isLegalMove, which looks at the other king: C3 must tell it apart
isLegalMove_OtherKing(gs, move) ==
    \E newGameState \in {MoveGenerator_makeMove(gs, move)} :
       ~isInCheck(newGameState, Opponent(gs.activeColor))

isLegalMove(gs, move) ==
    \E newGameState \in {MoveGenerator_makeMove(gs, move)} :
       ~isInCheck(newGameState, gs.activeColor)

generateLegalMoves(gs) ==
    SelectSeq(generatePseudoLegalMoves(gs), LAMBDA move : isLegalMove(gs, move))

----------------------------------------------------------------------------
(* ChessEngine *)

AllRights == [whiteKingside |-> TRUE, whiteQueenside |-> TRUE,
              blackKingside |-> TRUE, blackQueenside |-> TRUE]

\* A faulty createInitialGameState, which gives the right to castle to white only
createInitialGameState_WhiteCastles(historyRef) ==
    [position |-> createInitialPosition,
     activeColor |-> "white",
     castlingRights |-> [AllRights EXCEPT !.blackKingside = FALSE,
                                          !.blackQueenside = FALSE],
     enPassantTarget |-> NoSquare,
     halfmoveClock |-> 0,
     fullmoveNumber |-> 1,
     moveHistory |-> historyRef]

\* createInitialGameState, its moveHistory being the array at historyRef
createInitialGameState(historyRef) ==
    [position |-> createInitialPosition,
     activeColor |-> "white",
     castlingRights |-> AllRights,
     enPassantTarget |-> NoSquare,
     halfmoveClock |-> 0,
     fullmoveNumber |-> 1,
     moveHistory |-> historyRef]

\* halfmoveClock of the new state: line 65
HalfmoveClockAfter(gs, move) ==
    IF move.captured # NoPiece \/ move.piece.type = "pawn"
    THEN 0
    ELSE gs.halfmoveClock + 1

\* A faulty fullmove number, which counts every move: C10 must tell it apart
FullmoveNumberAfter_EveryMove(gs) == gs.fullmoveNumber + 1

\* fullmoveNumber of the new state: line 66
FullmoveNumberAfter(gs) ==
    IF gs.activeColor = "black" THEN gs.fullmoveNumber + 1 ELSE gs.fullmoveNumber

\* enPassantTarget of the new state: null (line 64) unless set by lines 96-103.
\* parseInt(move.from[1]) is the printed rank; only the difference is used.
EnPassantTargetAfter(move) ==
    LET fromRank == RankOf(move.from) + 1
        toRank == RankOf(move.to) + 1
        diff == toRank - fromRank
        absDiff == IF diff < 0 THEN 0 - diff ELSE diff
        enPassantRank == IF move.piece.color = "white" THEN 3 ELSE 6
    IN  IF move.piece.type = "pawn" /\ absDiff = 2
        THEN Sq(FileOf(move.from), enPassantRank)
        ELSE NoSquare

\* A faulty update of the castling rights, which starts from all four flags
\* instead of the old ones: C7 must tell it apart
CastlingRightsAfter_Fresh(castlingRights, move) ==
    LET white == move.piece.color = "white"
        king == move.piece.type = "king"
        rook == move.piece.type = "rook"
    IN  [whiteKingside |-> ~(king /\ white) /\ ~(rook /\ move.from = Sq(7, 1)),
         whiteQueenside |-> ~(king /\ white) /\ ~(rook /\ move.from = Sq(0, 1)),
         blackKingside |-> ~(king /\ ~white) /\ ~(rook /\ move.from = Sq(7, 8)),
         blackQueenside |-> ~(king /\ ~white) /\ ~(rook /\ move.from = Sq(0, 8))]

\* castlingRights of the new state: a copy of the old flags (line 106) with those
\* of a moved king or rook cleared (lines 108-123).
CastlingRightsAfter(castlingRights, move) ==
    LET white == move.piece.color = "white"
        king == move.piece.type = "king"
        rook == move.piece.type = "rook"
    IN  [whiteKingside |->
            /\ castlingRights.whiteKingside
            /\ ~(king /\ white)
            /\ ~(rook /\ move.from = Sq(7, 1)),
         whiteQueenside |->
            /\ castlingRights.whiteQueenside
            /\ ~(king /\ white)
            /\ ~(rook /\ move.from = Sq(0, 1)),
         blackKingside |->
            /\ castlingRights.blackKingside
            /\ ~(king /\ ~white)
            /\ ~(rook /\ move.from = Sq(7, 8)),
         blackQueenside |->
            /\ castlingRights.blackQueenside
            /\ ~(king /\ ~white)
            /\ ~(rook /\ move.from = Sq(0, 8))]

\* ChessEngine.applyMove. The new state is a spread of the old one, so its
\* moveHistory is the same array; position and castlingRights are copies.
applyMove(gs, move) ==
    LET p0 == [gs.position EXCEPT
                 ![move.to] = IF move.promotion # "none"
                              THEN Pc(move.promotion, move.piece.color)
                              ELSE move.piece,
                 ![move.from] = NoPiece]
        newPosition == SpecialMoves(p0, move)
    IN  [position |-> newPosition,
         activeColor |-> Opponent(gs.activeColor),
         castlingRights |-> CastlingRightsAfter(gs.castlingRights, move),
         enPassantTarget |-> EnPassantTargetAfter(move),
         halfmoveClock |-> HalfmoveClockAfter(gs, move),
         fullmoveNumber |-> FullmoveNumberAfter(gs),
         moveHistory |-> gs.moveHistory]

pieceToChar(piece) ==
    CASE piece.type = "pawn" -> "p"
      [] piece.type = "rook" -> "r"
      [] piece.type = "knight" -> "n"
      [] piece.type = "bishop" -> "b"
      [] piece.type = "queen" -> "q"
      [] piece.type = "king" -> "k"
      [] OTHER -> ""

toUpperCase(char) ==
    CASE char = "p" -> "P"
      [] char = "r" -> "R"
      [] char = "n" -> "N"
      [] char = "b" -> "B"
      [] char = "q" -> "Q"
      [] char = "k" -> "K"
      [] OTHER -> char

\* The decimal digit appended for a run of 1..8 empty squares
Digits == <<"1", "2", "3", "4", "5", "6", "7", "8">>

\* The inner loop of positionToFEN: the text of one rank from file on, a string
\* being the sequence of its characters.
RECURSIVE FenRank(_, _, _, _)
FenRank(position, rank, file, emptyCount) ==
    IF file > 7
    THEN (IF emptyCount > 0 THEN <<Digits[emptyCount]>> ELSE <<>>)
    ELSE LET piece == position[coordinatesToSquare(file, rank)]
             pieceChar == pieceToChar(piece)
         IN  IF piece = NoPiece
             THEN FenRank(position, rank, file + 1, emptyCount + 1)
             ELSE (IF emptyCount > 0 THEN <<Digits[emptyCount]>> ELSE <<>>)
                  \o <<IF piece.color = "white" THEN toUpperCase(pieceChar)
                                                ELSE pieceChar>>
                  \o FenRank(position, rank, file + 1, 0)

RECURSIVE FenFrom(_, _)
FenFrom(position, rank) ==
    IF rank < 0 THEN <<>>
    ELSE FenRank(position, rank, 0, 0)
         \o (IF rank > 0 THEN <<"/">> ELSE <<>>)
         \o FenFrom(position, rank - 1)

\* ChessEngine.positionToFEN: piece placement only
positionToFEN(position) == FenFrom(position, 7)

\* isGameOver() returning null
NoResult == [winner |-> "none", reason |-> "none"]

GameResult(winner, reason) == [winner |-> winner, reason |-> reason]

\* The squares that hold a piece: Object.values(position).filter(piece !== null)
Pieces(position) == {sq \in 0..63 : position[sq] # NoPiece}

\* ChessEngine.isInsufficientMaterial
isInsufficientMaterial(position) ==
    \E pieces \in {Pieces(position)} :
        IF Cardinality(pieces) = 2 THEN TRUE
        ELSE IF Cardinality(pieces) = 3
        THEN \E nonKingPieces \in {{sq \in pieces : position[sq].type # "king"}} :
                /\ Cardinality(nonKingPieces) = 1
                /\ \A sq \in nonKingPieces : position[sq].type \in {"bishop", "knight"}
        ELSE FALSE

\* this.moveHistory.filter(pos => pos === currentPosition).length
Repetitions(record, currentPosition) ==
    Cardinality({i \in 1..Len(record) : record[i] = currentPosition})

\* A faulty isGameOver, which looks at the fifty-move rule first
isGameOver_ClockFirst(gs, record) ==
    IF gs.halfmoveClock >= 100 THEN GameResult("draw", "fifty-move") ELSE NoResult

\* A faulty isGameOver, which answers stalemate at any halfmove clock of 100
isGameOver_NoClock(gs, record) ==
    IF Len(generateLegalMoves(gs)) = 0 THEN GameResult("draw", "stalemate") ELSE NoResult

\* ChessEngine.isGameOver, record being this.moveHistory
isGameOver(gs, record) ==
    The({The({
        IF Len(legalMoves) = 0 /\ inCheck
        THEN GameResult(Opponent(gs.activeColor), "checkmate")
        ELSE IF Len(legalMoves) = 0 /\ ~inCheck
        THEN GameResult("draw", "stalemate")
        ELSE IF gs.halfmoveClock >= 100
        THEN GameResult("draw", "fifty-move")
        ELSE IF Repetitions(record, positionToFEN(gs.position)) >= 3
        THEN GameResult("draw", "threefold-repetition")
        ELSE IF isInsufficientMaterial(gs.position)
        THEN GameResult("draw", "insufficient-material")
        ELSE NoResult :
          inCheck \in {isInCheck(gs, gs.activeColor)}}) :
        legalMoves \in {generateLegalMoves(gs)}})

\* The arrays still referred to: what the garbage collector keeps.
Collect(heap, roots) == [ref \in roots |-> heap[ref]]

\* A reference to a new array
NewRef(heap) == CHOOSE ref \in 1..(Cardinality(DOMAIN heap) + 1) : ref \notin DOMAIN heap

Held == {snapshot[i].moveHistory : i \in 1..Len(snapshot)}

\* A faulty getLegalMoves, which returns the pseudo-legal moves
getLegalMoves_PseudoLegal == generatePseudoLegalMoves(gameState)

\* getLegalMoves()
getLegalMoves == generateLegalMoves(gameState)

\* A faulty isLegal, which compares the origin square only: C1 must tell it apart
isLegal_FromOnly(legalMoves, move) ==
    \E i \in 1..Len(legalMoves) : legalMoves[i].from = move.from

\* legalMoves.some(legalMove => from, to and promotion equal those of move)
isLegal(legalMoves, move) ==
    \E i \in 1..Len(legalMoves) :
        /\ legalMoves[i].from = move.from
        /\ legalMoves[i].to = move.to
        /\ legalMoves[i].promotion = move.promotion

----------------------------------------------------------------------------
(* ChessAI *)

\* Infinity, as an integer beyond every score the search computes
Infinity == 1000000

\* a Move that is null or undefined
NoMove == Quiet(NoSquare, NoSquare, NoPiece)

Max(a, b) == IF a >= b THEN a ELSE b

Min(a, b) == IF a <= b THEN a ELSE b

Abs(n) == IF n < 0 THEN 0 - n ELSE n

\* The configuration ChessUI constructs its ChessAI with
UIConfig ==
    [depth |-> 4, timeLimit |-> 3000,
     useOpeningBook |-> TRUE, useEndgameTablebase |-> FALSE]

\* new ChessAI(aiConfig): the field initializers, the constructor and
\* initializeKillerMoves()
ChessAI_new(aiConfig) ==
    /\ config = aiConfig
    /\ transpositionTable = <<>>
    /\ killerMoves = [ply \in 0..19 |-> <<>>]
    /\ historyTable = <<>>
    /\ timeUp = 0

getPieceValue(pieceType) ==
    CASE pieceType = "pawn" -> 100
      [] pieceType = "knight" -> 320
      [] pieceType = "bishop" -> 330
      [] pieceType = "rook" -> 500
      [] pieceType = "queen" -> 900
      [] pieceType = "king" -> 20000
      [] OTHER -> 0

\* The tables are indexed by squareToIndex(square) + 1: the first row is rank 1.
getPieceSquareTables ==
    [pawn |-> <<
         0,  0,  0,  0,  0,  0,  0,  0,
        50, 50, 50, 50, 50, 50, 50, 50,
        10, 10, 20, 30, 30, 20, 10, 10,
         5,  5, 10, 25, 25, 10,  5,  5,
         0,  0,  0, 20, 20,  0,  0,  0,
         5, -5,-10,  0,  0,-10, -5,  5,
         5, 10, 10,-20,-20, 10, 10,  5,
         0,  0,  0,  0,  0,  0,  0,  0 >>,
     knight |-> <<
        -50,-40,-30,-30,-30,-30,-40,-50,
        -40,-20,  0,  0,  0,  0,-20,-40,
        -30,  0, 10, 15, 15, 10,  0,-30,
        -30,  5, 15, 20, 20, 15,  5,-30,
        -30,  0, 15, 20, 20, 15,  0,-30,
        -30,  5, 10, 15, 15, 10,  5,-30,
        -40,-20,  0,  5,  5,  0,-20,-40,
        -50,-40,-30,-30,-30,-30,-40,-50 >>,
     bishop |-> <<
        -20,-10,-10,-10,-10,-10,-10,-20,
        -10,  0,  0,  0,  0,  0,  0,-10,
        -10,  0,  5, 10, 10,  5,  0,-10,
        -10,  5,  5, 10, 10,  5,  5,-10,
        -10,  0, 10, 10, 10, 10,  0,-10,
        -10, 10, 10, 10, 10, 10, 10,-10,
        -10,  5,  0,  0,  0,  0,  5,-10,
        -20,-10,-10,-10,-10,-10,-10,-20 >>,
     rook |-> <<
         0,  0,  0,  0,  0,  0,  0,  0,
         5, 10, 10, 10, 10, 10, 10,  5,
        -5,  0,  0,  0,  0,  0,  0, -5,
        -5,  0,  0,  0,  0,  0,  0, -5,
        -5,  0,  0,  0,  0,  0,  0, -5,
        -5,  0,  0,  0,  0,  0,  0, -5,
        -5,  0,  0,  0,  0,  0,  0, -5,
         0,  0,  0,  5,  5,  0,  0,  0 >>,
     queen |-> <<
        -20,-10,-10, -5, -5,-10,-10,-20,
        -10,  0,  0,  0,  0,  0,  0,-10,
        -10,  0,  5,  5,  5,  5,  0,-10,
         -5,  0,  5,  5,  5,  5,  0, -5,
          0,  0,  5,  5,  5,  5,  0, -5,
        -10,  5,  5,  5,  5,  5,  0,-10,
        -10,  0,  5,  0,  0,  0,  0,-10,
        -20,-10,-10, -5, -5,-10,-10,-20 >>,
     king |-> <<
        -30,-40,-40,-50,-50,-40,-40,-30,
        -30,-40,-40,-50,-50,-40,-40,-30,
        -30,-40,-40,-50,-50,-40,-40,-30,
        -30,-40,-40,-50,-50,-40,-40,-30,
        -20,-30,-30,-40,-40,-30,-30,-20,
        -10,-20,-20,-20,-20,-20,-20,-10,
         20, 20,  0,  0,  0,  0, 20, 20,
         20, 30, 10,  0,  0, 10, 30, 20 >>]

squareToIndex(square) == RankOf(square) * 8 + FileOf(square)

\* values[from + 1] + .. + values[from + 8]
Sum8(values, from) ==
    values[from + 1] + values[from + 2] + values[from + 3] + values[from + 4]
    + values[from + 5] + values[from + 6] + values[from + 7] + values[from + 8]

\* values[1] + .. + values[64]: a loop "score += .." over the squares
Sum64(values) ==
    Sum8(values, 0) + Sum8(values, 8) + Sum8(values, 16) + Sum8(values, 24)
    + Sum8(values, 32) + Sum8(values, 40) + Sum8(values, 48) + Sum8(values, 56)

evaluateMaterial(gs) ==
    Sum64([i \in 1..64 |->
              LET piece == gs.position[i - 1]
                  value == getPieceValue(piece.type)
              IN  IF piece = NoPiece THEN 0
                  ELSE IF piece.color = "white" THEN value ELSE 0 - value])

evaluatePosition_Positional(gs) ==
    Sum64([i \in 1..64 |->
              LET square == i - 1
                  piece == gs.position[square]
                  tableValue == getPieceSquareTables[piece.type][squareToIndex(square) + 1]
              IN  IF piece = NoPiece THEN 0
                  ELSE IF piece.color = "white" THEN tableValue ELSE 0 - tableValue])

\* ChessAI.findKing: the first square, in key order, that holds the king
ChessAI_findKing(position, color) == FirstKing(position, color)

getKingSafetyScore(gs, kingSquare, color) ==
    LET file == FileOf(kingSquare)
        rank == RankOf(kingSquare)
    IN  IF file >= 2 /\ file <= 5 /\ rank >= 2 /\ rank <= 5 THEN 0 - 20 ELSE 0

evaluateKingSafety(gs) ==
    LET whiteKingSquare == ChessAI_findKing(gs.position, "white")
        blackKingSquare == ChessAI_findKing(gs.position, "black")
    IN  (IF whiteKingSquare # NoSquare
         THEN getKingSafetyScore(gs, whiteKingSquare, "white") ELSE 0)
        - (IF blackKingSquare # NoSquare
           THEN getKingSafetyScore(gs, blackKingSquare, "black") ELSE 0)

\* leftFile and rightFile are files 0..7, or outside 0..7 when undefined
hasAdjacentPawns(gs, leftFile, rightFile, color) ==
    \E file \in {leftFile, rightFile} \cap (0..7) :
        \E rank \in 0..7 : gs.position[file * 8 + rank] = Pc("pawn", color)

\* The contribution of one file to evaluatePawnStructure: the body of its loop
PawnStructureOfFile(gs, file) ==
    LET whitePawns == Cardinality({rank \in 0..7 : gs.position[file * 8 + rank] = WP})
        blackPawns == Cardinality({rank \in 0..7 : gs.position[file * 8 + rank] = BP})
        leftFile == file - 1
        rightFile == file + 1
    IN  (IF whitePawns > 1 THEN 0 - 20 * (whitePawns - 1) ELSE 0)
        + (IF blackPawns > 1 THEN 20 * (blackPawns - 1) ELSE 0)
        + (IF whitePawns > 0 /\ ~hasAdjacentPawns(gs, leftFile, rightFile, "white")
           THEN 0 - 15 ELSE 0)
        + (IF blackPawns > 0 /\ ~hasAdjacentPawns(gs, leftFile, rightFile, "black")
           THEN 15 ELSE 0)

evaluatePawnStructure(gs) ==
    Sum8([i \in 1..8 |-> PawnStructureOfFile(gs, i - 1)], 0)

\* A faulty evaluatePosition, which scores for white whoever is to move
evaluatePosition_ForWhite(gs) ==
    evaluateMaterial(gs) + evaluatePosition_Positional(gs)
    + evaluateKingSafety(gs) + evaluatePawnStructure(gs)

evaluatePosition(gs) ==
    LET score == evaluateMaterial(gs) + evaluatePosition_Positional(gs)
                 + evaluateKingSafety(gs) + evaluatePawnStructure(gs)
    IN  IF gs.activeColor = "white" THEN score ELSE 0 - score

\* A faulty ChessAI.makeMove, which writes the move into the position of the
\* gameState it is given instead of into a copy: C5 must tell it apart
ChessAI_makeMove_InPlace(gs, move) ==
    [state |-> [gs EXCEPT !.position = [@ EXCEPT ![move.to] = move.piece,
                                                 ![move.from] = NoPiece],
                          !.activeColor = Opponent(gs.activeColor)],
     arg |-> [gs EXCEPT !.position = [@ EXCEPT ![move.to] = move.piece,
                                               ![move.from] = NoPiece]]]

\* ChessAI.makeMove(gameState, move): state is the GameState returned, built on a
\* copy of the position; arg is the caller's gameState object as the call leaves it
ChessAI_makeMove(gs, move) ==
    [state |-> [gs EXCEPT !.position = [@ EXCEPT ![move.to] = move.piece,
                                                 ![move.from] = NoPiece],
                          !.activeColor = Opponent(gs.activeColor)],
     arg |-> gs]

\* color[0] and type[0]: knight and king have the same first letter
FirstLetter(word) ==
    CASE word = "white" -> "w"
      [] word = "black" -> "b"
      [] word = "pawn" -> "p"
      [] word = "knight" -> "k"
      [] word = "bishop" -> "b"
      [] word = "rook" -> "r"
      [] word = "queen" -> "q"
      [] word = "king" -> "k"

\* A faulty key, which also tells the en-passant target
getPositionKey_WithEnPassant(gs) ==
    [i \in 1..66 |->
        IF i = 66 THEN gs.enPassantTarget
        ELSE IF i = 65 THEN FirstLetter(gs.activeColor)
        ELSE LET rank == 7 - ((i - 1) \div 8)
                 file == (i - 1) % 8
                 piece == gs.position[file * 8 + rank]
             IN  IF piece = NoPiece THEN "-"
                 ELSE FirstLetter(piece.color) \o FirstLetter(piece.type)]

\* The key as the sequence of the strings appended to it: one per square, from a8
\* to h8 down to a1 to h1, and the first letter of the active color
getPositionKey(gs) ==
    [i \in 1..65 |->
        IF i = 65 THEN FirstLetter(gs.activeColor)
        ELSE LET rank == 7 - ((i - 1) \div 8)
                 file == (i - 1) % 8
                 piece == gs.position[file * 8 + rank]
             IN  IF piece = NoPiece THEN "-"
                 ELSE FirstLetter(piece.color) \o FirstLetter(piece.type)]

getMoveKey(move) == <<move.from, "-", move.to, "-", move.piece.type>>

getMVVLVA(move) ==
    IF move.captured = NoPiece THEN 0
    ELSE getPieceValue(move.captured.type) * 10 - getPieceValue(move.piece.type)

\* Array.prototype.sort with the comparator (a, b) => score(b) - score(a): the sort
\* is stable, so moves of equal score keep their order; scores[i] is the score of
\* moves[i]
SortDescending(moves, scores) ==
    LET n == Len(moves)
        place(i) == 1 + Cardinality({j \in 1..n : \/ scores[j] > scores[i]
                                                   \/ (scores[j] = scores[i] /\ j < i)})
    IN  SubSeq([k \in 1..n |-> moves[CHOOSE i \in 1..n : place(i) = k]], 1, n)

\* this.killerMoves[ply].includes(move) compares Move objects by identity. The
\* moves being ordered are the objects generateLegalMoves has just created, and a
\* killer list holds objects created by earlier generateLegalMoves calls: no
\* element is ever the same object as move.
includes(killers, move) == FALSE

\* this.historyTable.get(this.getMoveKey(move)) || 0
HistoryOf(move) ==
    IF getMoveKey(move) \in DOMAIN historyTable THEN historyTable[getMoveKey(move)] ELSE 0

\* The score orderMoves gives a move: scoreA, scoreB
OrderScore(move, ply, killers) ==
    (IF move.captured # NoPiece THEN getMVVLVA(move) ELSE 0)
    + (IF move.promotion # "none" THEN 900 ELSE 0)
    + (IF ply < 20 /\ includes(killers[ply], move) THEN 100 ELSE 0)
    + HistoryOf(move)

orderMoves(moves, ply, killers) ==
    The({SortDescending(moves, scores) :
           scores \in {SubSeq([i \in 1..Len(moves) |-> OrderScore(moves[i], ply, killers)],
                              1, Len(moves))}})

\* The capturing moves among the legal moves, by decreasing MVV-LVA: lines 133-135
Captures(legalMoves) ==
    The({The({SortDescending(captures, scores) :
                scores \in {SubSeq([i \in 1..Len(captures) |-> getMVVLVA(captures[i])],
                                   1, Len(captures))}}) :
           captures \in {SelectSeq(legalMoves, LAMBDA move : move.captured # NoPiece)}})

\* The bounds of a quiescence search in its loop over the captures; done after a
\* return from inside the loop, score being the value returned
Bounds(alpha, beta, done, score) ==
    [alpha |-> alpha, beta |-> beta, done |-> done, score |-> score]

RECURSIVE quiescenceSearch(_, _, _, _, _)
RECURSIVE QuiescenceLoop(_, _, _, _, _, _)

\* One turn of the loop over the captures: lines 138-147
QuiescenceTurn(gs, move, bounds, isMaximizing, depth) ==
    The({The({
        IF isMaximizing
        THEN IF score >= bounds.beta
             THEN Bounds(bounds.alpha, bounds.beta, TRUE, bounds.beta)
             ELSE Bounds(Max(bounds.alpha, score), bounds.beta, FALSE, 0)
        ELSE IF score <= bounds.alpha
             THEN Bounds(bounds.alpha, bounds.beta, TRUE, bounds.alpha)
             ELSE Bounds(bounds.alpha, Min(bounds.beta, score), FALSE, 0) :
          score \in {quiescenceSearch(newGameState, bounds.alpha, bounds.beta,
                                      ~isMaximizing, depth + 1)}}) :
        newGameState \in {ChessAI_makeMove(gs, move).state}})

\* The loop over the captures, from captures[i] on, and the return after it
QuiescenceLoop(gs, captures, i, bounds, isMaximizing, depth) ==
    IF bounds.done THEN bounds.score
    ELSE IF i > Len(captures)
    THEN (IF isMaximizing THEN bounds.alpha ELSE bounds.beta)
    ELSE The({QuiescenceLoop(gs, captures, next, newBounds, isMaximizing, depth) :
                next \in {i + 1},
                newBounds \in {QuiescenceTurn(gs, captures[i], bounds,
                                              isMaximizing, depth)}})

\* A faulty quiescenceSearch, whose cap is one ply further
quiescenceSearch_OnePlyMore(gs, alpha, beta, isMaximizing, depth) ==
    IF depth > 11 THEN evaluatePosition(gs)
    ELSE The({
           IF isMaximizing /\ standPat >= beta THEN beta
           ELSE IF ~isMaximizing /\ standPat <= alpha THEN alpha
           ELSE The({QuiescenceLoop(gs, captures, 1, bounds, isMaximizing, sameDepth) :
                       captures \in {Captures(generateLegalMoves(gs))},
                       bounds \in {IF isMaximizing
                                   THEN Bounds(Max(alpha, standPat), beta, FALSE, 0)
                                   ELSE Bounds(alpha, Min(beta, standPat), FALSE, 0)},
                       sameDepth \in {depth}}) :
           standPat \in {evaluatePosition(gs)}})

quiescenceSearch(gs, alpha, beta, isMaximizing, depth) ==
    IF depth > 10 THEN evaluatePosition(gs)
    ELSE The({
           IF isMaximizing /\ standPat >= beta THEN beta
           ELSE IF ~isMaximizing /\ standPat <= alpha THEN alpha
           ELSE The({QuiescenceLoop(gs, captures, 1, bounds, isMaximizing, sameDepth) :
                       captures \in {Captures(generateLegalMoves(gs))},
                       bounds \in {IF isMaximizing
                                   THEN Bounds(Max(alpha, standPat), beta, FALSE, 0)
                                   ELSE Bounds(alpha, Min(beta, standPat), FALSE, 0)},
                       sameDepth \in {depth}}) :
           standPat \in {evaluatePosition(gs)}})

\* What a minimax call leaves: its return value (score, move), the two tables it
\* writes, and the caller's gameState object
Searched(score, move, table, killers, arg) ==
    [score |-> score, move |-> move, transpositionTable |-> table,
     killerMoves |-> killers, arg |-> arg]

\* The variables of minimax in its loop over the moves, the tables and the
\* gameState object; done after the break
Searching(alpha, beta, bestScore, bestMove, table, killers, arg, done) ==
    [alpha |-> alpha, beta |-> beta, bestScore |-> bestScore, bestMove |-> bestMove,
     transpositionTable |-> table, killerMoves |-> killers, arg |-> arg, done |-> done]

\* A faulty store, which puts the move behind the killers already there
StoreKiller_AtEnd(killers, ply, move) ==
    [killers EXCEPT ![ply] = SubSeq(@ \o <<move>>, 1, Min(2, Len(@) + 1))]

\* this.killerMoves[ply].unshift(move), then slice(0, 2)
StoreKiller(killers, ply, move) ==
    [killers EXCEPT ![ply] = SubSeq(<<move>> \o @, 1, Min(2, Len(@) + 1))]

RECURSIVE minimax(_, _, _, _, _, _, _, _)
RECURSIVE SearchMoves(_, _, _, _, _, _)

\* One turn of the loop over the ordered moves: lines 78-102
SearchMove(s, move, depth, isMaximizing, ply) ==
    The({The({The({The({The({
        Searching(newAlpha, newBeta, newBestScore,
                  IF better THEN move ELSE s.bestMove,
                  searched.transpositionTable,
                  IF newBeta <= newAlpha /\ move.captured = NoPiece /\ ply < 20
                  THEN StoreKiller(searched.killerMoves, ply, move)
                  ELSE searched.killerMoves,
                  newGameState.arg,
                  newBeta <= newAlpha) :
          newAlpha \in {IF isMaximizing THEN Max(s.alpha, newBestScore) ELSE s.alpha},
          newBeta \in {IF isMaximizing THEN s.beta ELSE Min(s.beta, newBestScore)}}) :
          newBestScore \in {IF better THEN searched.score ELSE s.bestScore}}) :
          better \in {IF isMaximizing THEN searched.score > s.bestScore
                                      ELSE searched.score < s.bestScore}}) :
          searched \in {minimax(newGameState.state, depth - 1, s.alpha, s.beta,
                                ~isMaximizing, ply + 1,
                                s.transpositionTable, s.killerMoves)}}) :
        newGameState \in {ChessAI_makeMove(s.arg, move)}})

\* The loop over the ordered moves, from moves[i] on
SearchMoves(s, moves, i, depth, isMaximizing, ply) ==
    IF s.done \/ i > Len(moves) THEN s
    ELSE The({SearchMoves(next, moves, nextIndex, depth, isMaximizing, ply) :
                nextIndex \in {i + 1},
                next \in {SearchMove(s, moves[i], depth, isMaximizing, ply)}})

minimax(gs, depth, alpha, beta, isMaximizing, ply, table, killers) ==
    The({
      IF positionKey \in DOMAIN table /\ table[positionKey].depth >= depth
      THEN Searched(table[positionKey].score, table[positionKey].move, table, killers, gs)
      ELSE IF depth = 0
      THEN Searched(quiescenceSearch(gs, alpha, beta, isMaximizing, 0), NoMove,
                    table, killers, gs)
      ELSE The({
        IF Len(moves) = 0
        THEN Searched(IF isInCheck(gs, gs.activeColor)
                      THEN (IF isMaximizing THEN ply - 10000 ELSE 10000 - ply)
                      ELSE 0,
                      NoMove, table, killers, gs)
        ELSE The({
          Searched(s.bestScore, s.bestMove,
                   (positionKey :> [score |-> s.bestScore, depth |-> depth,
                                    move |-> s.bestMove])
                       @@ s.transpositionTable,
                   s.killerMoves, s.arg) :
            s \in {SearchMoves(Searching(alpha, beta,
                                         IF isMaximizing THEN 0 - Infinity ELSE Infinity,
                                         NoMove, table, killers, gs, FALSE),
                               moves, 1, depth, isMaximizing, ply)}}) :
          moves \in {The({orderMoves(legalMoves, ply, killers) :
                            legalMoves \in {generateLegalMoves(gs)}})}}) :
      positionKey \in {getPositionKey(gs)}})

\* The iterative deepening of getBestMove from the given depth on: lines 28-39.
\* timeUpAt is the first depth before which Date.now() - startTime is found to
\* exceed config.timeLimit.
RECURSIVE Deepen(_, _, _, _, _, _, _, _)

\* A faulty loop, which still starts the iteration before which the time is found up
Deepen_OneMore(gs, depth, maxDepth, timeUpAt, bestMove, bestScore, table, killers) ==
    IF depth > maxDepth \/ depth > timeUpAt
    THEN Searched(bestScore, bestMove, table, killers, gs)
    ELSE The({
           Deepen(searched.arg, depth + 1, maxDepth, timeUpAt,
                  IF searched.move # NoMove THEN searched.move ELSE bestMove,
                  searched.score, searched.transpositionTable, searched.killerMoves) :
           searched \in {minimax(gs, depth, 0 - Infinity, Infinity, TRUE, 0, table, killers)}})

Deepen(gs, depth, maxDepth, timeUpAt, bestMove, bestScore, table, killers) ==
    IF depth > maxDepth \/ depth >= timeUpAt
    THEN Searched(bestScore, bestMove, table, killers, gs)
    ELSE The({The({
           IF Abs(newBestScore) > 9000
           THEN Searched(newBestScore, newBestMove, searched.transpositionTable,
                         searched.killerMoves, searched.arg)
           ELSE Deepen(searched.arg, next, maxDepth, timeUpAt, newBestMove, newBestScore,
                       searched.transpositionTable, searched.killerMoves) :
             next \in {depth + 1},
             newBestMove \in {IF searched.move # NoMove THEN searched.move ELSE bestMove},
             newBestScore \in {IF searched.move # NoMove THEN searched.score
                                                        ELSE bestScore}}) :
           searched \in {minimax(gs, depth, 0 - Infinity, Infinity, TRUE, 0, table, killers)}})

\* A faulty getBestMove, which starts every call on an empty transposition table
getBestMove_EmptyTable(gs, timeUpAt) ==
    Deepen(gs, 1, config.depth, timeUpAt, NoMove, 0 - Infinity, <<>>, killerMoves)

\* getBestMove(gameState), on the tables of the instance
getBestMove(gs, timeUpAt) ==
    Deepen(gs, 1, config.depth, timeUpAt, NoMove, 0 - Infinity,
           transpositionTable, killerMoves)

----------------------------------------------------------------------------
(* Bounds of the model *)

\* the accepted moves of one game
MaxMoves == 4

\* the values of getGameState() a caller holds at a time
MaxSnapshots == 1

e1 == Sq(4, 1)
g1 == Sq(6, 1)
h1 == Sq(7, 1)
e2 == Sq(4, 2)
f3 == Sq(5, 3)
e4 == Sq(4, 4)
e5 == Sq(4, 5)
f6 == Sq(5, 6)
e7 == Sq(4, 7)
e8 == Sq(4, 8)
g8 == Sq(6, 8)

\* Moves as MoveGenerator builds them
GeneratedMoves ==
    {Quiet(e2, e4, WP), Quiet(g1, f3, WN), Quiet(e1, e2, WK), Quiet(h1, g1, WR),
     Capture(f3, e5, WN, BP),
     Quiet(e7, e5, BP), Quiet(g8, f6, BN), Quiet(e8, e7, BK)}

\* Moves as a caller writes them, { from, to, piece }: the knight's capture on e5
\* without its captured field, and the pawn's illegal step of
\* "should reject illegal moves".
BareMoves == {Quiet(f3, e5, WN), Quiet(e2, e5, WP)}

\* Moves whose other fields disagree with the legal move of the same from and to:
\* the g1 knight's move announced as a pawn's, and the e-pawn's advance announced
\* as castling.
ForgedMoves ==
    {Quiet(g1, f3, WP), Castle(e2, e4, WP, "kingside")}

\* The moves submitted to makeMove
SubmittedMoves == GeneratedMoves \cup BareMoves \cup ForgedMoves

Init ==
    /\ gameState = createInitialGameState(1)
    /\ fenHistory = <<>>
    /\ arrays = (1 :> <<>>)
    /\ snapshot = <<>>
    /\ lastCall = "new"
    /\ result = FALSE
    /\ made = <<>>
    /\ ChessAI_new(UIConfig)

\* makeMove(move), legalMoves being the value of this.getLegalMoves()
makeMove(move, legalMoves) ==
    /\ Len(made) < MaxMoves
    /\ lastCall' = "makeMove"
    /\ UNCHANGED aiVars
    /\ IF ~isLegal(legalMoves, move)
       THEN /\ result' = FALSE
            /\ UNCHANGED <<gameState, fenHistory, arrays, snapshot, made>>
       ELSE /\ gameState' = applyMove(gameState, move)
            /\ arrays' = [arrays EXCEPT ![gameState.moveHistory] = Append(@, move)]
            /\ fenHistory' = Append(fenHistory, positionToFEN(gameState'.position))
            /\ result' = TRUE
            /\ made' = Append(made, move)
            /\ UNCHANGED snapshot

MakeMove ==
    \E legalMoves \in {getLegalMoves} :
        \E move \in SubmittedMoves : makeMove(move, legalMoves)

\* reset()
Reset ==
    /\ lastCall' = "reset"
    /\ LET ref == NewRef(arrays)
       IN  /\ gameState' = createInitialGameState(ref)
           /\ arrays' = Collect(arrays @@ (ref :> <<>>), Held \cup {ref})
    /\ fenHistory' = <<>>
    /\ made' = <<>>
    /\ result' = FALSE
    /\ UNCHANGED snapshot
    /\ UNCHANGED aiVars

\* getGameState(): a shallow copy, { ...this.gameState }, whose moveHistory is the
\* array of the engine's own state
GetGameState ==
    /\ Len(snapshot) < MaxSnapshots
    /\ snapshot' = Append(snapshot, gameState)
    /\ lastCall' = "getGameState"
    /\ result' = FALSE
    /\ UNCHANGED <<gameState, fenHistory, arrays, made>>
    /\ UNCHANGED aiVars

\* isGameOver()
IsGameOver ==
    /\ lastCall' = "isGameOver"
    /\ result' = isGameOver(gameState, fenHistory)
    /\ UNCHANGED <<gameState, fenHistory, arrays, snapshot, made>>
    /\ UNCHANGED aiVars

\* getLegalMoves()
GetLegalMoves ==
    /\ lastCall' = "getLegalMoves"
    /\ result' = getLegalMoves
    /\ UNCHANGED <<gameState, fenHistory, arrays, snapshot, made>>
    /\ UNCHANGED aiVars

Next ==
    \/ MakeMove
    \/ Reset

Spec == Init /\ [][Next]_vars

\* The moves of "should update move history" and "should reject illegal moves"
HistoryMoves ==
    {Quiet(e2, e4, WP), Quiet(e7, e5, BP), Quiet(g1, f3, WN), Quiet(e2, e5, WP)}

\* makeMove(move) in a game whose states a caller keeps
MakeHistoryMove ==
    \E legalMoves \in {getLegalMoves} :
        \E move \in HistoryMoves : makeMove(move, legalMoves)

NextSnapshot ==
    \/ MakeHistoryMove
    \/ IsGameOver
    \/ GetLegalMoves
    \/ Reset
    \/ GetGameState

\* The engine with a caller that keeps what getGameState() returned
SpecSnapshot == Init /\ [][NextSnapshot]_vars

----------------------------------------------------------------------------
(* The engine's claims *)

Last(seq) == seq[Len(seq)]

\* The engine's move history, read through the reference
History == arrays[gameState.moveHistory]

\* The step is a makeMove call that returned true
Accepted == lastCall' = "makeMove" /\ result' = TRUE

\* The step is a makeMove call that returned false
Rejected == lastCall' = "makeMove" /\ result' = FALSE

\* The legal moves of the state before the step that match the accepted move
MatchingLegalMoves ==
    LET legalMoves == generateLegalMoves(gameState)
        move == Last(made')
    IN  {legalMoves[i] : i \in {j \in 1..Len(legalMoves) :
                                  /\ legalMoves[j].from = move.from
                                  /\ legalMoves[j].to = move.to
                                  /\ legalMoves[j].promotion = move.promotion}}

\* C1: a makeMove call whose move matches no legal move on (from, to, promotion)
\* returns false, that is a call that returns true was given a matching move, and a
\* call that returns false leaves the position, the side to move, the castling
\* rights, the en-passant target, the clocks, the move history and the repetition
\* record as they were.
C1_IllegalMoveRejected ==
    [][/\ Accepted => MatchingLegalMoves # {}
       /\ Rejected => UNCHANGED <<gameState, fenHistory, arrays, made>>]_vars

\* A move was rejected in the middle of a game.
C1_Witness ==
    lastCall = "makeMove" /\ result = FALSE /\ Len(made) >= 2

\* The fields of a state that C2 names
Core(gs) == <<gs.position, gs.enPassantTarget, gs.castlingRights, gs.halfmoveClock>>

\* C2: after a makeMove call that returns true, the position, the en-passant target,
\* the castling rights and the halfmove clock are those obtained by applying the
\* engine's own legal move that matches the submitted one: the submitted piece,
\* captured, castling and enPassant fields have no effect.
C2_AppliesOwnLegalMove ==
    [][Accepted =>
         \A legalMove \in MatchingLegalMoves :
            Core(gameState') = Core(applyMove(gameState, legalMove))]_vars

\* C6: no later makeMove or reset changes a value that getGameState() returned,
\* its move history, read through the reference it holds, included.
C6_SnapshotImmutable ==
    [][\A i \in 1..Len(snapshot) :
          /\ snapshot'[i] = snapshot[i]
          /\ arrays'[snapshot[i].moveHistory] = arrays[snapshot[i].moveHistory]]_vars

Flags == {"whiteKingside", "whiteQueenside", "blackKingside", "blackQueenside"}

\* C7: between two resets, a castling-rights flag that is false stays false.
C7_CastlingRightsMonotone ==
    [][lastCall' # "reset" =>
         \A flag \in Flags :
            ~gameState.castlingRights[flag] => ~gameState'.castlingRights[flag]]_vars

\* Both kings have moved and all four flags are cleared: white's stayed cleared
\* while black moved.
C7_Witness ==
    /\ Len(made) >= 4
    /\ \A flag \in Flags : ~gameState.castlingRights[flag]
    /\ made[3].piece = WK


\* C8: after a makeMove call that returns true, the en-passant target is the square
\* passed over if the move made, the engine's matching legal move, is a pawn's
\* advance of two ranks, and none otherwise.
C8_EnPassantTargetIffDoublePush ==
    [][Accepted =>
         \A legalMove \in MatchingLegalMoves :
            gameState'.enPassantTarget =
               IF /\ legalMove.piece.type = "pawn"
                  /\ FileOf(legalMove.from) = FileOf(legalMove.to)
                  /\ Abs(RankOf(legalMove.to) - RankOf(legalMove.from)) = 2
               THEN coordinatesToSquare(FileOf(legalMove.from),
                        (RankOf(legalMove.from) + RankOf(legalMove.to)) \div 2)
               ELSE NoSquare]_vars

\* C9: after a makeMove call that returns true, the halfmove clock is 0 if the move
\* made, the engine's matching legal move, moves a pawn or captures, and the
\* previous clock plus 1 otherwise, with or without a captured field in the
\* submitted value.
C9_HalfmoveClock ==
    [][Accepted =>
         \A legalMove \in MatchingLegalMoves :
            gameState'.halfmoveClock =
               IF legalMove.piece.type = "pawn" \/ legalMove.captured # NoPiece
               THEN 0
               ELSE gameState.halfmoveClock + 1]_vars

\* C10: after k accepted moves the move history holds exactly these k moves in
\* order, white is to move iff k is even, and the fullmove number is
\* 1 + floor(k / 2).
C10_HistoryAndCounters ==
    LET k == Len(made)
    IN  /\ History = made
        /\ (gameState.activeColor = "white") <=> (k % 2 = 0)
        /\ gameState.fullmoveNumber = 1 + (k \div 2)

\* Three moves were accepted and a fourth call was rejected.
C10_Witness ==
    Len(made) = 3 /\ lastCall = "makeMove" /\ result = FALSE

\* C11: after reset() the engine is as a freshly constructed one: getGameState()
\* gives the standard position with white to move, all four castling rights, no
\* en-passant target, halfmove clock 0, fullmove number 1 and an empty move
\* history, and the repetition record is empty; whatever makeMove, isGameOver and
\* getLegalMoves calls came before.
C11_ResetIsFresh ==
    lastCall = "reset" =>
        /\ gameState.position = createInitialPosition
        /\ gameState.activeColor = "white"
        /\ \A flag \in DOMAIN gameState.castlingRights : gameState.castlingRights[flag]
        /\ DOMAIN gameState.castlingRights =
              {"whiteKingside", "whiteQueenside", "blackKingside", "blackQueenside"}
        /\ gameState.enPassantTarget = NoSquare
        /\ gameState.halfmoveClock = 0
        /\ gameState.fullmoveNumber = 1
        /\ arrays[gameState.moveHistory] = <<>>
        /\ fenHistory = <<>>

\* The engine was reset after a game of two moves, which a caller had observed.
C11_Witness ==
    /\ lastCall = "reset"
    /\ Len(snapshot) = 1
    /\ Len(arrays[snapshot[1].moveHistory]) = 2

----------------------------------------------------------------------------
(* MoveGenerator as a pure function of the GameState it is given *)

\* The position with the pieces of placed, a set of <<square, piece>>
PositionOf(placed) ==
    [sq \in 0..63 |->
        IF \E p \in placed : p[1] = sq
        THEN (CHOOSE p \in placed : p[1] = sq)[2]
        ELSE NoPiece]

NoRights == [whiteKingside |-> FALSE, whiteQueenside |-> FALSE,
             blackKingside |-> FALSE, blackQueenside |-> FALSE]

WhiteRights == [whiteKingside |-> TRUE, whiteQueenside |-> TRUE,
                blackKingside |-> FALSE, blackQueenside |-> FALSE]

StateOf(position, activeColor, castlingRights, enPassantTarget) ==
    [position |-> position,
     activeColor |-> activeColor,
     castlingRights |-> castlingRights,
     enPassantTarget |-> enPassantTarget,
     halfmoveClock |-> 0,
     fullmoveNumber |-> 1,
     moveHistory |-> 1]

\* The same state seen from the other side: ranks and colors exchanged
MirrorSquare(sq) == IF sq = NoSquare THEN NoSquare ELSE FileOf(sq) * 8 + (7 - RankOf(sq))

MirrorPiece(piece) ==
    IF piece = NoPiece THEN NoPiece ELSE Pc(piece.type, Opponent(piece.color))

Mirror(gs) ==
    [gs EXCEPT
       !.position = [sq \in 0..63 |-> MirrorPiece(gs.position[MirrorSquare(sq)])],
       !.activeColor = Opponent(gs.activeColor),
       !.castlingRights = [whiteKingside |-> gs.castlingRights.blackKingside,
                           whiteQueenside |-> gs.castlingRights.blackQueenside,
                           blackKingside |-> gs.castlingRights.whiteKingside,
                           blackQueenside |-> gs.castlingRights.whiteQueenside],
       !.enPassantTarget = MirrorSquare(gs.enPassantTarget)]

\* "should not allow moves that leave king in check": the initial position with
\* the black queen on d1
QueenOnD1 ==
    [createInitialGameState(1) EXCEPT
       !.position = [createInitialPosition EXCEPT ![Sq(3, 1)] = BQ, ![Sq(3, 8)] = NoPiece]]

\* White may castle on both wings, capture en passant on d6, promote on a8 or by
\* capturing on b8 or h8; its knight on d2 is pinned by the bishop on a5.
AllKinds ==
    StateOf(PositionOf({<<Sq(4, 1), WK>>, <<Sq(7, 1), WR>>, <<Sq(0, 1), WR>>,
                        <<Sq(3, 2), WN>>, <<Sq(4, 5), WP>>, <<Sq(0, 7), WP>>,
                        <<Sq(6, 7), WP>>,
                        <<Sq(5, 7), BK>>, <<Sq(3, 5), BP>>, <<Sq(0, 5), BB>>,
                        <<Sq(7, 8), BR>>, <<Sq(1, 8), BN>>}),
            "white", WhiteRights, Sq(3, 6))

\* White's king would cross f1, attacked by the rook on f8, when castling short,
\* and would land on c1, attacked by the rook on c8, when castling long.
CastlingAttacked ==
    StateOf(PositionOf({<<Sq(4, 1), WK>>, <<Sq(7, 1), WR>>, <<Sq(0, 1), WR>>,
                        <<Sq(6, 7), BK>>, <<Sq(5, 8), BR>>, <<Sq(2, 8), BR>>}),
            "white", WhiteRights, NoSquare)

\* Capturing en passant on d6 would clear the fifth rank between the rook on a5
\* and the king on h5.
EnPassantPinned ==
    StateOf(PositionOf({<<Sq(7, 5), WK>>, <<Sq(4, 5), WP>>,
                        <<Sq(3, 5), BP>>, <<Sq(0, 5), BR>>, <<Sq(4, 8), BK>>}),
            "white", NoRights, Sq(3, 6))

\* White's king is in check from the rook on e8; the right to castle long is
\* still recorded although no rook stands on a1.
CastlingInCheck ==
    StateOf(PositionOf({<<Sq(4, 1), WK>>, <<Sq(7, 1), WR>>,
                        <<Sq(6, 7), BK>>, <<Sq(4, 8), BR>>}),
            "white", WhiteRights, NoSquare)

SparseStates == {AllKinds, CastlingAttacked, CastlingInCheck, EnPassantPinned}

\* The game states handed to the generator
GeneratorStates ==
    {createInitialGameState(1), QueenOnD1}
        \cup SparseStates \cup {Mirror(gs) : gs \in SparseStates}

\* the moves applied to a state handed to the generator
MaxPlay == 1

InitGenerator ==
    /\ gameState \in GeneratorStates
    /\ fenHistory = <<>>
    /\ arrays = (1 :> <<>>)
    /\ snapshot = <<>>
    /\ lastCall = "new"
    /\ result = <<>>
    /\ made = <<>>
    /\ ChessAI_new(UIConfig)

\* MoveGenerator.generateLegalMoves(gameState)
GenerateLegalMoves ==
    /\ lastCall # "generateLegalMoves"
    /\ result' = generateLegalMoves(gameState)
    /\ lastCall' = "generateLegalMoves"
    /\ UNCHANGED <<gameState, fenHistory, arrays, snapshot, made>>
    /\ UNCHANGED aiVars

\* One of the moves generated is applied, giving the next state to generate from.
Play ==
    /\ lastCall = "generateLegalMoves"
    /\ Len(made) < MaxPlay
    /\ \E i \in 1..Len(result) :
          /\ gameState' = applyMove(gameState, result[i])
          /\ made' = Append(made, result[i])
    /\ lastCall' = "applyMove"
    /\ result' = <<>>
    /\ UNCHANGED <<fenHistory, arrays, snapshot>>
    /\ UNCHANGED aiVars

NextGenerator ==
    \/ GenerateLegalMoves
    \/ Play

SpecGenerator == InitGenerator /\ [][NextGenerator]_vars

\* C3: the position that results from applying a move of generateLegalMoves(state)
\* does not have the mover's king attacked: no pseudo-legal move of the opponent
\* targets its square.
C3_LegalMovesKeepKingSafe ==
    lastCall = "generateLegalMoves" =>
       \A i \in 1..Len(result) :
          \A after \in {applyMove(gameState, result[i])} :
             \A kingSquare \in {findKing(after.position, gameState.activeColor)} :
                \A opponentMoves \in {generatePseudoLegalMoves(after)} :
                   /\ after.activeColor = Opponent(gameState.activeColor)
                   /\ kingSquare # NoSquare
                   /\ \A j \in 1..Len(opponentMoves) : opponentMoves[j].to # kingSquare

\* Castling, en-passant and promotion moves were generated, and a pseudo-legal move
\* (of the pinned knight) was left out.
C3_Witness ==
    /\ lastCall = "generateLegalMoves"
    /\ \E i \in 1..Len(result) : result[i].castling # "none"
    /\ \E i \in 1..Len(result) : result[i].enPassant
    /\ \E i \in 1..Len(result) : result[i].promotion # "none"
    /\ Len(result) < Len(generatePseudoLegalMoves(gameState))

----------------------------------------------------------------------------
(* The engine late in a game: isGameOver *)

\* An engine: its gameState, its repetition record and the array that
\* gameState.moveHistory refers to
Engine(gs, record, history) ==
    [gameState |-> gs, fenHistory |-> record, moveHistory |-> history]

\* new ChessEngine()
NewEngine == Engine(createInitialGameState(1), <<>>, <<>>)

\* An engine just after a capture left the given pieces, white to move: the
\* records of the earlier positions, which held more pieces, equal no later one
\* and are left out.
EngineAfterCapture(placed) ==
    Engine([StateOf(PositionOf(placed), "white", NoRights, NoSquare)
               EXCEPT !.fullmoveNumber = 60],
           <<positionToFEN(PositionOf(placed))>>, <<>>)

\* makeMove(move) as a function of the engine
Made(engine, move) ==
    IF ~isLegal(generateLegalMoves(engine.gameState), move) THEN engine
    ELSE The({Engine(gs, Append(engine.fenHistory, positionToFEN(gs.position)),
                     Append(engine.moveHistory, move)) :
                gs \in {applyMove(engine.gameState, move)}})

\* The engine after makeMove of moves[i], moves[i + 1], ...
RECURSIVE PlayedFrom(_, _, _)
PlayedFrom(engine, moves, i) ==
    IF i > Len(moves) THEN engine
    ELSE The({PlayedFrom(next, moves, j) : j \in {i + 1}, next \in {Made(engine, moves[i])}})

Played(engine, moves) == PlayedFrom(engine, moves, 1)

\* n moves that go round the given cycle of moves
Cycle(moves, n) == [i \in 1..n |-> moves[((i - 1) % Len(moves)) + 1]]

\* King and rook against king: Kg6, Ra1 against Kh8
RookEnding == {<<Sq(6, 6), WK>>, <<Sq(0, 1), WR>>, <<Sq(7, 8), BK>>}

\* Ra1-b1, Kh8-g8, Rb1-a1, Kg8-h8
RookCycle ==
    <<Quiet(Sq(0, 1), Sq(1, 1), WR), Quiet(Sq(7, 8), Sq(6, 8), BK),
      Quiet(Sq(1, 1), Sq(0, 1), WR), Quiet(Sq(6, 8), Sq(7, 8), BK)>>

\* King and bishop against king: Kb6, Be5 against Ka8
BishopEnding == {<<Sq(1, 6), WK>>, <<Sq(4, 5), WB>>, <<Sq(0, 8), BK>>}

\* Be5-d4, Ka8-b8, Bd4-e5, Kb8-a8
BishopCycle ==
    <<Quiet(Sq(4, 5), Sq(3, 4), WB), Quiet(Sq(0, 8), Sq(1, 8), BK),
      Quiet(Sq(3, 4), Sq(4, 5), WB), Quiet(Sq(1, 8), Sq(0, 8), BK)>>

\* The kings, and the kings with a knight, a pawn, two bishops, or a bishop each
OtherEndings ==
    {{<<Sq(1, 6), WK>>, <<Sq(0, 8), BK>>},
     {<<Sq(1, 6), WK>>, <<Sq(4, 5), WN>>, <<Sq(0, 8), BK>>},
     {<<Sq(1, 6), WK>>, <<Sq(4, 5), WP>>, <<Sq(0, 8), BK>>},
     {<<Sq(1, 6), WK>>, <<Sq(4, 5), WB>>, <<Sq(4, 4), WB>>, <<Sq(0, 8), BK>>},
     {<<Sq(1, 6), WK>>, <<Sq(4, 5), WB>>, <<Sq(7, 8), BB>>, <<Sq(0, 8), BK>>}}

\* 1. f3 e5 2. g4, before 2... Qh4 mate
BeforeMate ==
    <<Quiet(Sq(5, 2), Sq(5, 3), WP), Quiet(Sq(4, 7), Sq(4, 5), BP),
      Quiet(Sq(6, 2), Sq(6, 4), WP)>>

\* 1. e3 e6 2. Qf3 Nf6 3. Qe2 Ng8 4. Qd1 Nf6 5. Nf3 Ng8, before 6. Ng1: the
\* placement after 1... e6 comes back with black to move after 4. Qd1 and after
\* 6. Ng1
BeforeThird ==
    <<Quiet(Sq(4, 2), Sq(4, 3), WP), Quiet(Sq(4, 7), Sq(4, 6), BP),
      Quiet(Sq(3, 1), Sq(5, 3), WQ), Quiet(Sq(6, 8), Sq(5, 6), BN),
      Quiet(Sq(5, 3), Sq(4, 2), WQ), Quiet(Sq(5, 6), Sq(6, 8), BN),
      Quiet(Sq(4, 2), Sq(3, 1), WQ), Quiet(Sq(6, 8), Sq(5, 6), BN),
      Quiet(Sq(6, 1), Sq(5, 3), WN), Quiet(Sq(5, 6), Sq(6, 8), BN)>>

\* the halfmove clock two moves before the fifty-move rule applies
NearFifty == 98

\* The engines whose games are taken up
GameOverEngines ==
    {Played(NewEngine, BeforeMate), Played(NewEngine, BeforeThird)}
    \cup {Played(EngineAfterCapture(RookEnding), Cycle(RookCycle, n)) : n \in {2, NearFifty}}
    \cup {Played(EngineAfterCapture(BishopEnding), Cycle(BishopCycle, n)) :
            n \in {2, 6, NearFifty}}
    \cup {EngineAfterCapture(placed) : placed \in OtherEndings}

\* The moves submitted late in a game: the moves of the two cycles, Rb1-b8, Ra1-a8,
\* Be5-d6, Kb6-b5, 2... Qh4 and 6. Ng1 as MoveGenerator builds them, and Kb6-b5
\* announced as a queen's move.
GameOverMoves ==
    {RookCycle[i] : i \in 1..4} \cup {BishopCycle[i] : i \in 1..4}
    \cup {Quiet(Sq(1, 1), Sq(1, 8), WR), Quiet(Sq(0, 1), Sq(0, 8), WR),
          Quiet(Sq(4, 5), Sq(3, 6), WB), Quiet(Sq(1, 6), Sq(1, 5), WK),
          Quiet(Sq(3, 8), Sq(7, 4), BQ), Quiet(Sq(5, 3), Sq(6, 1), WN),
          Quiet(Sq(1, 6), Sq(1, 5), WQ)}

\* made counts the moves accepted from here on
InitGameOver ==
    /\ \E engine \in GameOverEngines :
          /\ gameState = engine.gameState
          /\ fenHistory = engine.fenHistory
          /\ arrays = (1 :> engine.moveHistory)
    /\ snapshot = <<>>
    /\ lastCall = "new"
    /\ result = FALSE
    /\ made = <<>>
    /\ ChessAI_new(UIConfig)

\* makeMove(move) late in a game
MakeGameOverMove ==
    \E legalMoves \in {getLegalMoves} :
        \E move \in GameOverMoves : makeMove(move, legalMoves)

NextGameOver ==
    \/ MakeGameOverMove
    \/ IsGameOver
    \/ Reset

SpecGameOver == InitGameOver /\ [][NextGameOver]_vars

\* The side to move has no legal move
NoLegalMove == Len(generateLegalMoves(gameState)) = 0

\* The side to move is in check
InCheck == isInCheck(gameState, gameState.activeColor)

\* C12: isGameOver returns checkmate, won by the opponent of the side to move,
\* exactly when the side to move has no legal move and is in check, and the
\* stalemate draw exactly when it has no legal move and is not in check, whatever
\* the halfmove clock, the repetition record and the material.
C12_CheckmateAndStalemate ==
    lastCall = "isGameOver" =>
        \A noLegalMove \in {NoLegalMove}, inCheck \in {InCheck} :
            /\ (result.reason = "checkmate") <=> (noLegalMove /\ inCheck)
            /\ (result.reason = "checkmate")
                  => (result.winner = Opponent(gameState.activeColor))
            /\ (result.reason = "stalemate") <=> (noLegalMove /\ ~inCheck)
            /\ (result.reason = "stalemate") => (result.winner = "draw")

\* isGameOver answered stalemate with the halfmove clock past 100, the position
\* recorded three times and a bishop as the only piece beside the kings.
C12_Witness ==
    /\ lastCall = "isGameOver"
    /\ result = GameResult("draw", "stalemate")
    /\ gameState.halfmoveClock >= 100
    /\ isInsufficientMaterial(gameState.position)

\* C13: with a halfmove clock of 100 or more isGameOver returns a result, the
\* fifty-move draw when the side to move has a legal move; with a clock below 100
\* it never returns the fifty-move draw.
C13_FiftyMove ==
    lastCall = "isGameOver" =>
        IF gameState.halfmoveClock >= 100
        THEN /\ result # NoResult
             /\ ~NoLegalMove => result = GameResult("draw", "fifty-move")
        ELSE result.reason # "fifty-move"

\* isGameOver answered the fifty-move draw at clock 100 in a position that was
\* recorded three times and holds a bishop as the only piece beside the kings.
C13_Witness ==
    /\ lastCall = "isGameOver"
    /\ result = GameResult("draw", "fifty-move")
    /\ gameState.halfmoveClock = 100
    /\ Repetitions(fenHistory, positionToFEN(gameState.position)) >= 3
    /\ isInsufficientMaterial(gameState.position)

\* The recorded positions that equal the current one in placement and in side to
\* move: the record gets one entry per accepted move and the side to move
\* alternates, so the entries an even number of moves back had the current side to
\* move.
PairRepetitions ==
    Cardinality({i \in 1..Len(fenHistory) :
                   /\ fenHistory[i] = positionToFEN(gameState.position)
                   /\ (Len(fenHistory) - i) % 2 = 0})

\* C14: when the side to move has a legal move and the halfmove clock is below
\* 100, isGameOver returns the threefold-repetition draw exactly when the current
\* pair of placement and side to move was recorded at least three times.
C14_ThreefoldCountsSideToMove ==
    (lastCall = "isGameOver" /\ gameState.halfmoveClock < 100 /\ ~NoLegalMove)
        => ((result.reason = "threefold-repetition") <=> (PairRepetitions >= 3))

\* The squares of the kings
Kings == {sq \in 0..63 : gameState.position[sq].type = "king"}

\* The board holds the two kings and at most one more piece, a bishop or a knight
KingsAndAtMostOneMinor ==
    /\ \E w \in Kings, b \in Kings :
          /\ gameState.position[w].color = "white"
          /\ gameState.position[b].color = "black"
          /\ Kings = {w, b}
    /\ Cardinality(Pieces(gameState.position) \ Kings) <= 1
    /\ \A sq \in Pieces(gameState.position) \ Kings :
          gameState.position[sq].type \in {"bishop", "knight"}

\* C15: when the side to move has a legal move, the halfmove clock is below 100
\* and the position was not recorded three times, isGameOver returns the
\* insufficient-material draw if the board holds only the two kings, or the two
\* kings and one bishop or knight, and none for every other material.
C15_InsufficientMaterial ==
    (/\ lastCall = "isGameOver"
     /\ gameState.halfmoveClock < 100
     /\ ~NoLegalMove
     /\ Repetitions(fenHistory, positionToFEN(gameState.position)) < 3)
        => result = IF KingsAndAtMostOneMinor
                    THEN GameResult("draw", "insufficient-material")
                    ELSE NoResult

----------------------------------------------------------------------------
(* The search engine, called on the game states of a caller *)

\* the greatest config.depth of the instances
MaxDepth == 1

\* the getBestMove calls on one instance
MaxCalls == 2

KingsidePossible == [whiteKingside |-> TRUE, whiteQueenside |-> FALSE,
                     blackKingside |-> FALSE, blackQueenside |-> FALSE]

\* King and pawn each; black's pawn has just advanced d7-d5 past white's e-pawn
EnPassantOpen ==
    StateOf(PositionOf({<<Sq(6, 1), WK>>, <<Sq(4, 5), WP>>,
                        <<Sq(6, 8), BK>>, <<Sq(3, 5), BP>>}),
            "white", NoRights, Sq(3, 6))

\* The same placement some moves later, the kings having gone and come back
EnPassantGone == [EnPassantOpen EXCEPT !.enPassantTarget = NoSquare]

\* White may castle short
CastlingOpen ==
    StateOf(PositionOf({<<Sq(4, 1), WK>>, <<Sq(7, 1), WR>>, <<Sq(4, 8), BK>>}),
            "white", KingsidePossible, NoSquare)

\* The pawn on e5 can be taken by the pawn on d4, which the pawn on f6 retakes
Exchange ==
    StateOf(PositionOf({<<Sq(6, 1), WK>>, <<Sq(3, 4), WP>>,
                        <<Sq(6, 8), BK>>, <<Sq(4, 5), BP>>, <<Sq(5, 6), BP>>}),
            "white", NoRights, NoSquare)

\* Black, to move, is stalemated
Stalemate ==
    StateOf(PositionOf({<<Sq(2, 6), WK>>, <<Sq(1, 6), WQ>>, <<Sq(0, 8), BK>>}),
            "black", NoRights, NoSquare)

\* The game states a caller passes to getBestMove
AIStates ==
    {EnPassantOpen, EnPassantGone, CastlingOpen, Exchange, Mirror(Exchange), Stalemate}

InitAI ==
    /\ gameState \in AIStates
    /\ fenHistory = <<>>
    /\ arrays = (1 :> <<>>)
    /\ snapshot = <<>>
    /\ lastCall = "new"
    /\ result = NoMove
    /\ made = <<>>
    /\ \E depth \in 1..MaxDepth : ChessAI_new([UIConfig EXCEPT !.depth = depth])

\* await this.ai.getBestMove(gameState); made records what the calls returned
GetBestMove ==
    /\ Len(made) < MaxCalls
    /\ \E timeUpAt \in 1..(config.depth + 1) :
         \E searched \in {getBestMove(gameState, timeUpAt)} :
            /\ result' = searched.move
            /\ made' = Append(made, searched.move)
            /\ transpositionTable' = searched.transpositionTable
            /\ killerMoves' = searched.killerMoves
            /\ gameState' = searched.arg
            /\ timeUp' = timeUpAt
    /\ lastCall' = "getBestMove"
    /\ UNCHANGED <<fenHistory, arrays, snapshot, config, historyTable>>

\* The game goes on: the caller has another game state to pass
GameGoesOn ==
    /\ Len(made) < MaxCalls
    /\ gameState' \in AIStates \ {gameState}
    /\ lastCall' = "getGameState"
    /\ result' = NoMove
    /\ UNCHANGED <<fenHistory, arrays, snapshot, made>>
    /\ UNCHANGED aiVars

NextAI ==
    \/ GetBestMove
    \/ GameGoesOn

SpecAI == InitAI /\ [][NextAI]_vars

\* C4: whatever calls were made before on the instance, a move returned by
\* getBestMove(state) matches a member of generateLegalMoves(state) on from, to and
\* promotion.
C4_BestMoveIsLegal ==
    (lastCall = "getBestMove" /\ result # NoMove)
        => isLegal(generateLegalMoves(gameState), result)

\* C5: getBestMove leaves the game state it is passed as it was.
C5_StateUnchanged ==
    [][lastCall' = "getBestMove" => gameState' = gameState]_vars

\* A second search on the instance returned a move, with the result of the first
\* search of the state in the table
C5_Witness ==
    /\ lastCall = "getBestMove"
    /\ Len(made) = 2
    /\ result # NoMove
    /\ getPositionKey(gameState) \in DOMAIN transpositionTable

\* C16: getBestMove returns none only when the side to move has no legal move,
\* whatever the elapsed time and the contents of the tables of the instance.
C16_NoneOnlyWhenTerminal ==
    (lastCall = "getBestMove" /\ result = NoMove)
        => Len(generateLegalMoves(gameState)) = 0

----------------------------------------------------------------------------
(* The search at depth 2 *)

\* The configuration of "should find obvious captures"
TestConfig ==
    [depth |-> 2, timeLimit |-> 1000,
     useOpeningBook |-> FALSE, useEndgameTablebase |-> FALSE]

\* The position of "should find obvious captures": the initial position with a
\* black queen on d4 and the white e-pawn on e3
QueenOnD4 ==
    [createInitialGameState(1) EXCEPT
        !.position = [@ EXCEPT ![Sq(3, 4)] = BQ, ![Sq(4, 3)] = WP,
                               ![Sq(4, 2)] = NoPiece]]

\* The same capture with few pieces: Kg1, Pe3 against Kg8, Qd4, Pa7
QueenEnPrise ==
    StateOf(PositionOf({<<Sq(6, 1), WK>>, <<Sq(4, 3), WP>>,
                        <<Sq(6, 8), BK>>, <<Sq(3, 4), BQ>>, <<Sq(0, 7), BP>>}),
            "white", NoRights, NoSquare)

\* The game states with few pieces that a caller passes
SparseSearchStates == {QueenEnPrise, Mirror(QueenEnPrise), Exchange, Mirror(Exchange)}

SearchStates == {QueenOnD4} \cup SparseSearchStates

InitSearch ==
    /\ gameState \in SearchStates
    /\ fenHistory = <<>>
    /\ arrays = (1 :> <<>>)
    /\ snapshot = <<>>
    /\ lastCall = "new"
    /\ result = NoMove
    /\ made = <<>>
    /\ ChessAI_new(TestConfig)

\* The game goes on with few pieces
SearchGoesOn ==
    /\ Len(made) < MaxCalls
    /\ gameState' \in SparseSearchStates \ {gameState}
    /\ lastCall' = "getGameState"
    /\ result' = NoMove
    /\ UNCHANGED <<fenHistory, arrays, snapshot, made>>
    /\ UNCHANGED aiVars

NextSearch ==
    \/ GetBestMove
    \/ SearchGoesOn

SpecSearch == InitSearch /\ [][NextSearch]_vars

\* The legal moves of gs by which a pawn takes a queen that nothing defends: no
\* move of the opponent reaches the square after the capture
QueenTakers(gs) ==
    The({{legalMoves[i] : i \in {j \in 1..Len(legalMoves) :
            /\ legalMoves[j].piece.type = "pawn"
            /\ legalMoves[j].captured.type = "queen"
            /\ \A replies \in {generatePseudoLegalMoves(
                                  MoveGenerator_makeMove(gs, legalMoves[j]))} :
                  \A k \in 1..Len(replies) : replies[k].to # legalMoves[j].to}} :
         legalMoves \in {generateLegalMoves(gs)}})

\* C17: when a pawn of the side to move can take an undefended queen, the first
\* getBestMove call of an instance of depth 2, both iterations of which ran,
\* returns that capture.
C17_TakesTheQueen ==
    (/\ lastCall = "getBestMove"
     /\ Len(made) = 1
     /\ config.depth = 2
     /\ timeUp > config.depth)
        => \A takers \in {QueenTakers(gameState)} :
              takers # {} => result \in takers

\* The test's position was searched and e3xd4 came back.
C17_Witness ==
    /\ lastCall = "getBestMove"
    /\ Len(made) = 1
    /\ timeUp > config.depth
    /\ gameState = QueenOnD4
    /\ result = Capture(Sq(4, 3), Sq(3, 4), WP, BQ)

\* getBestMove(gameState) of an instance of depth n that never finds the time up
CompletedIterations(gs, n) ==
    Deepen(gs, 1, n, n + 1, NoMove, 0 - Infinity, transpositionTable, killerMoves)

\* C18: the time is tested before an iteration starts and nowhere else: a call that
\* finds the time up before iteration d returns what iterations 1 to d - 1,
\* run to completion, produce, and leaves the tables as they leave them; no
\* iteration from d on has run.
C18_TimeTestedBeforeIterations ==
    [][lastCall' = "getBestMove" =>
         \A completed \in {CompletedIterations(gameState,
                                               Min(timeUp' - 1, config.depth))} :
            /\ result' = completed.move
            /\ transpositionTable' = completed.transpositionTable
            /\ killerMoves' = completed.killerMoves]_vars

\* The time was found up before the second iteration, and the move of the first,
\* which leaves the queen, came back.
C18_Witness ==
    /\ lastCall = "getBestMove"
    /\ Len(made) = 1
    /\ config.depth = 2
    /\ timeUp = 2
    /\ gameState = QueenEnPrise
    /\ result # NoMove
    /\ result \notin QueenTakers(gameState)

----------------------------------------------------------------------------
(* The generator's other claims *)

\* The one-square and two-square advances of the eight white pawns and the two
\* moves of each white knight
OpeningMoves ==
    {Quiet(Sq(file, 2), Sq(file, rank), WP) : file \in 0..7, rank \in {3, 4}}
    \cup {Quiet(Sq(1, 1), Sq(0, 3), WN), Quiet(Sq(1, 1), Sq(2, 3), WN),
          Quiet(Sq(6, 1), Sq(5, 3), WN), Quiet(Sq(6, 1), Sq(7, 3), WN)}

\* C19: from the standard initial position generateLegalMoves returns exactly 20
\* moves: the sixteen pawn advances and the four knight moves, each once.
C19_TwentyOpeningMoves ==
    (lastCall = "generateLegalMoves" /\ gameState = createInitialGameState(1))
        => /\ Len(result) = 20
           /\ {result[i] : i \in 1..Len(result)} = OpeningMoves

\* The moves of the initial position were generated.
C19_Witness ==
    /\ lastCall = "generateLegalMoves"
    /\ gameState = createInitialGameState(1)
    /\ Len(result) = 20

\* The piece on the square from attacks the square to: by the geometry of its
\* kind, with nothing between the two for a rook, a bishop or a queen
AttacksSquare(position, from, to) ==
    LET piece == position[from]
        df == FileOf(to) - FileOf(from)
        dr == RankOf(to) - RankOf(from)
        far == Max(Abs(df), Abs(dr))
        straight == df = 0 \/ dr = 0
        diagonal == Abs(df) = Abs(dr)
        clear == \A k \in 1..(far - 1) :
                    position[(FileOf(from) + k * (df \div far)) * 8
                             + RankOf(from) + k * (dr \div far)] = NoPiece
    IN  /\ piece # NoPiece
        /\ from # to
        /\ CASE piece.type = "pawn" ->
                  Abs(df) = 1 /\ dr = (IF piece.color = "white" THEN 1 ELSE 0 - 1)
             [] piece.type = "knight" -> {Abs(df), Abs(dr)} = {1, 2}
             [] piece.type = "king" -> far = 1
             [] piece.type = "rook" -> straight /\ clear
             [] piece.type = "bishop" -> diagonal /\ clear
             [] piece.type = "queen" -> (straight \/ diagonal) /\ clear

AttackedBy(position, sq, color) ==
    \E from \in 0..63 :
       /\ position[from] # NoPiece
       /\ position[from].color = color
       /\ AttacksSquare(position, from, sq)

Wings == {"kingside", "queenside"}

HomeRank(color) == IF color = "white" THEN 1 ELSE 8

KingHome(color) == Sq(4, HomeRank(color))

KingDestination(color, wing) ==
    Sq(IF wing = "kingside" THEN 6 ELSE 2, HomeRank(color))

RookCorner(color, wing) ==
    Sq(IF wing = "kingside" THEN 7 ELSE 0, HomeRank(color))

RookDestination(color, wing) ==
    Sq(IF wing = "kingside" THEN 5 ELSE 3, HomeRank(color))

FilesBetween(wing) == IF wing = "kingside" THEN {5, 6} ELSE {1, 2, 3}

RightsFlag(gs, color, wing) ==
    IF color = "white"
    THEN (IF wing = "kingside" THEN gs.castlingRights.whiteKingside
                               ELSE gs.castlingRights.whiteQueenside)
    ELSE (IF wing = "kingside" THEN gs.castlingRights.blackKingside
                               ELSE gs.castlingRights.blackQueenside)

\* The four conditions of the castling move
MayCastle(gs, color, wing) ==
    /\ gs.position[KingHome(color)] = Pc("king", color)
    /\ RightsFlag(gs, color, wing)
    /\ \A file \in FilesBetween(wing) : gs.position[Sq(file, HomeRank(color))] = NoPiece
    /\ gs.position[RookCorner(color, wing)] = Pc("rook", color)

\* The board after king and rook have castled
Castled(position, color, wing) ==
    [position EXCEPT ![KingHome(color)] = NoPiece,
                     ![RookCorner(color, wing)] = NoPiece,
                     ![KingDestination(color, wing)] = Pc("king", color),
                     ![RookDestination(color, wing)] = Pc("rook", color)]

CastlingMove(color, wing) ==
    Castle(KingHome(color), KingDestination(color, wing), Pc("king", color), wing)

Among(move, moves) == \E i \in 1..Len(moves) : moves[i] = move

\* C20: the castling move of the side to move on a wing is pseudo-legal iff its
\* king is on e1/e8, the rights flag is set, the squares between king and rook
\* are empty and its rook is on the corner; it is legal iff moreover no enemy
\* piece attacks the king's destination on the board after castling. No other
\* move is marked as castling. Check before castling and attacked squares on the
\* king's way play no part.
C20_Castling ==
    lastCall = "generateLegalMoves" =>
       \A pseudoLegal \in {generatePseudoLegalMoves(gameState)} :
          /\ \A wing \in Wings :
                \A color \in {gameState.activeColor} :
                   /\ Among(CastlingMove(color, wing), pseudoLegal)
                        <=> MayCastle(gameState, color, wing)
                   /\ Among(CastlingMove(color, wing), result)
                        <=> /\ MayCastle(gameState, color, wing)
                            /\ ~AttackedBy(Castled(gameState.position, color, wing),
                                           KingDestination(color, wing),
                                           Opponent(color))
          /\ \A i \in 1..Len(pseudoLegal) :
                pseudoLegal[i].castling # "none" =>
                   pseudoLegal[i] = CastlingMove(gameState.activeColor,
                                                 pseudoLegal[i].castling)

\* The king castles short across f1, which the rook on f8 attacks, and may not
\* castle long onto c1, which the rook on c8 attacks.
C20_Witness ==
    /\ lastCall = "generateLegalMoves"
    /\ gameState = CastlingAttacked
    /\ AttackedBy(gameState.position, Sq(5, 1), "black")
    /\ Among(CastlingMove("white", "kingside"), result)
    /\ MayCastle(gameState, "white", "queenside")
    /\ ~Among(CastlingMove("white", "queenside"), result)

----------------------------------------------------------------------------
(* Games with en passant, promotion and castling *)

\* 1. e4 a6 2. e5 d5, before 3. exd6 e.p.
BeforeEnPassant ==
    <<Quiet(Sq(4, 2), Sq(4, 4), WP), Quiet(Sq(0, 7), Sq(0, 6), BP),
      Quiet(Sq(4, 4), Sq(4, 5), WP), Quiet(Sq(3, 7), Sq(3, 5), BP)>>

\* 1. h4 g5 2. hxg5 a6 3. g6 a5 4. gxh7 a4, before 5. hxg8 promoting
BeforePromotion ==
    <<Quiet(Sq(7, 2), Sq(7, 4), WP), Quiet(Sq(6, 7), Sq(6, 5), BP),
      Capture(Sq(7, 4), Sq(6, 5), WP, BP), Quiet(Sq(0, 7), Sq(0, 6), BP),
      Quiet(Sq(6, 5), Sq(6, 6), WP), Quiet(Sq(0, 6), Sq(0, 5), BP),
      Capture(Sq(6, 6), Sq(7, 7), WP, BP), Quiet(Sq(0, 5), Sq(0, 4), BP)>>

\* 1. Nf3 Nf6 2. g3 g6 3. Bg2 Bg7, before 4. O-O
BeforeCastling ==
    <<Quiet(Sq(6, 1), Sq(5, 3), WN), Quiet(Sq(6, 8), Sq(5, 6), BN),
      Quiet(Sq(6, 2), Sq(6, 3), WP), Quiet(Sq(6, 7), Sq(6, 6), BP),
      Quiet(Sq(5, 1), Sq(6, 2), WB), Quiet(Sq(5, 8), Sq(6, 7), BB)>>

\* 1. Nf3 h5 2. Ne5 a5 3. Ng6 Ra6 4. Nxh8 Rh6 5. a3 Rxh8 6. a4 Nf6 7. b3 e6
\* 8. b4 Be7 9. c3: the rook of h8 was captured there and the rook of a8 has
\* come to h8
RookReplaced ==
    <<Quiet(Sq(6, 1), Sq(5, 3), WN), Quiet(Sq(7, 7), Sq(7, 5), BP),
      Quiet(Sq(5, 3), Sq(4, 5), WN), Quiet(Sq(0, 7), Sq(0, 5), BP),
      Quiet(Sq(4, 5), Sq(6, 6), WN), Quiet(Sq(0, 8), Sq(0, 6), BR),
      Capture(Sq(6, 6), Sq(7, 8), WN, BR), Quiet(Sq(0, 6), Sq(7, 6), BR),
      Quiet(Sq(0, 2), Sq(0, 3), WP), Capture(Sq(7, 6), Sq(7, 8), BR, WN),
      Quiet(Sq(0, 3), Sq(0, 4), WP), Quiet(Sq(6, 8), Sq(5, 6), BN),
      Quiet(Sq(1, 2), Sq(1, 3), WP), Quiet(Sq(4, 7), Sq(4, 6), BP),
      Quiet(Sq(1, 3), Sq(1, 4), WP), Quiet(Sq(5, 8), Sq(4, 7), BB),
      Quiet(Sq(2, 2), Sq(2, 3), WP)>>

\* Kings and a pawn: Kb6 against Ka8 and a pawn on c5, which the king may take
KingsAndPawn == {<<Sq(1, 6), WK>>, <<Sq(0, 8), BK>>, <<Sq(2, 5), BP>>}

\* Kg7 and a pawn on a7 against Ke4: the pawn may advance to a8
PawnToPromote == {<<Sq(6, 7), WK>>, <<Sq(0, 7), WP>>, <<Sq(4, 4), BK>>}

\* The engines whose games are taken up
GameEngines ==
    {Played(NewEngine, moves) :
        moves \in {BeforeEnPassant, BeforePromotion, BeforeCastling, RookReplaced}}
    \cup {EngineAfterCapture(placed) : placed \in {KingsAndPawn, PawnToPromote}}

\* The moves submitted in these games, each as MoveGenerator builds it: exd6 e.p.,
\* e5-e6, ...cxd6, ...a6-a5, ...a4-a3; hxg8 and a7-a8 promoting to each kind,
\* O-O and Ke1-f1 for white, ...O-O and ...Ke8-f8 for black; Kb6xc5,
\* ...Ka8-b8, ...Ke4-e3
GameMoves ==
    {Mv(Sq(4, 5), Sq(3, 6), WP, BP, "none", "none", TRUE),
     Quiet(Sq(4, 5), Sq(4, 6), WP), Capture(Sq(2, 7), Sq(3, 6), BP, WP),
     Quiet(Sq(0, 6), Sq(0, 5), BP), Quiet(Sq(0, 4), Sq(0, 3), BP)}
    \cup {Mv(Sq(7, 7), Sq(6, 8), WP, BN, PromotionKinds[i], "none", FALSE) : i \in 1..4}
    \cup {Mv(Sq(0, 7), Sq(0, 8), WP, NoPiece, PromotionKinds[i], "none", FALSE) :
            i \in 1..4}
    \cup {Castle(Sq(4, 1), Sq(6, 1), WK, "kingside"), Quiet(Sq(4, 1), Sq(5, 1), WK),
          Castle(Sq(4, 8), Sq(6, 8), BK, "kingside"), Quiet(Sq(4, 8), Sq(5, 8), BK),
          Capture(Sq(1, 6), Sq(2, 5), WK, BP), Quiet(Sq(0, 8), Sq(1, 8), BK),
          Quiet(Sq(4, 4), Sq(4, 3), BK)}

\* Moves that are in no getLegalMoves() of these games: Kb6-b7 next to the black
\* king, and the two last-rank pawn moves with no promotion kind
RefusedMoves ==
    {Quiet(Sq(1, 6), Sq(1, 7), WK),
     Capture(Sq(7, 7), Sq(6, 8), WP, BN), Quiet(Sq(0, 7), Sq(0, 8), WP)}

InitGame ==
    /\ \E engine \in GameEngines :
          /\ gameState = engine.gameState
          /\ fenHistory = engine.fenHistory
          /\ arrays = (1 :> engine.moveHistory)
    /\ snapshot = <<>>
    /\ lastCall = "new"
    /\ result = FALSE
    /\ made = <<>>
    /\ ChessAI_new(UIConfig)

\* makeMove(move) in these games: with an element of getLegalMoves(), or with one
\* of the moves to refuse
MakeGameMove ==
    \E legalMoves \in {getLegalMoves} :
        \E move \in GameMoves \cup RefusedMoves :
            /\ move \in GameMoves => \E i \in 1..Len(legalMoves) : legalMoves[i] = move
            /\ makeMove(move, legalMoves)

NextGame ==
    \/ MakeGameMove
    \/ GetLegalMoves
    \/ IsGameOver

SpecGame == InitGame /\ [][NextGame]_vars

\* The square beside the capturing pawn, in the file of the destination
PassedPawnSquare(move) == FileOf(move.to) * 8 + RankOf(move.from)

\* The capturing pawn advances one rank towards the enemy and changes file by one
PawnDiagonal(move) ==
    /\ move.piece.type = "pawn"
    /\ Abs(FileOf(move.to) - FileOf(move.from)) = 1
    /\ RankOf(move.to) - RankOf(move.from)
         = (IF move.piece.color = "white" THEN 1 ELSE 0 - 1)

\* C21: an accepted en-passant move lands on the en-passant target, the enemy
\* pawn beside the capturer, whose two-square advance was the move before, is
\* removed, the capturer leaves its square and no other square changes; every
\* en-passant move getLegalMoves returns is a pawn's diagonal step onto the
\* current en-passant target with the square beside the capturer occupied.
C21_EnPassant ==
    [][/\ (lastCall' = "makeMove" /\ result' = TRUE /\ Last(made').enPassant) =>
            \A move \in {Last(made')} :
               \A record \in {arrays[gameState.moveHistory]} :
                  /\ Among(move, generateLegalMoves(gameState))
                  /\ move.to = gameState.enPassantTarget
                  /\ gameState.position[PassedPawnSquare(move)]
                        = Pc("pawn", Opponent(move.piece.color))
                  /\ Len(record) > 0
                  /\ Last(record).piece = Pc("pawn", Opponent(move.piece.color))
                  /\ Last(record).to = PassedPawnSquare(move)
                  /\ Abs(RankOf(Last(record).to) - RankOf(Last(record).from)) = 2
                  /\ gameState'.position
                        = [gameState.position EXCEPT ![move.from] = NoPiece,
                                                     ![PassedPawnSquare(move)] = NoPiece,
                                                     ![move.to] = move.piece]
       /\ lastCall' = "getLegalMoves" =>
            \A i \in 1..Len(result') :
               result'[i].enPassant =>
                  /\ PawnDiagonal(result'[i])
                  /\ result'[i].to = gameState.enPassantTarget
                  /\ gameState.position[PassedPawnSquare(result'[i])] # NoPiece]_vars

\* 3. exd6 e.p. was accepted: the pawn stands on d6, and d5 and e5 are empty.
C21_Witness ==
    /\ lastCall = "makeMove"
    /\ result = TRUE
    /\ made = <<Mv(Sq(4, 5), Sq(3, 6), WP, BP, "none", "none", TRUE)>>
    /\ gameState.position[Sq(3, 6)] = WP
    /\ gameState.position[Sq(3, 5)] = NoPiece
    /\ gameState.position[Sq(4, 5)] = NoPiece

\* Kg7-g8 announced as a pawn's move
ForgedGameMoves == {Quiet(Sq(6, 7), Sq(6, 8), WP)}

\* makeMove(move) with a move that no generator built
MakeForgedGameMove ==
    \E legalMoves \in {getLegalMoves} :
        \E move \in ForgedGameMoves : makeMove(move, legalMoves)

NextGameForged ==
    \/ MakeGameMove
    \/ MakeForgedGameMove
    \/ GetLegalMoves
    \/ IsGameOver

SpecGameForged == InitGame /\ [][NextGameForged]_vars

LastRankPawnMove(move) == move.piece.type = "pawn" /\ RankOf(move.to) \in {0, 7}

NoPawnOnLastRank(position) ==
    \A sq \in 0..63 :
       (position[sq] # NoPiece /\ position[sq].type = "pawn") => RankOf(sq) \notin {0, 7}

\* C22: the legal moves hold, for each pawn move onto the last rank, exactly the
\* four moves of its (from, to) pair that promote to queen, rook, bishop and
\* knight; an accepted pawn move onto the last rank names a promotion kind and
\* leaves a piece of that kind and of the mover's color on the destination; no
\* pawn stands on rank 1 or rank 8.
C22_Promotion ==
    [][/\ lastCall' = "getLegalMoves" =>
            \A i \in 1..Len(result') :
               LastRankPawnMove(result'[i]) =>
                  \A same \in {{j \in 1..Len(result') :
                                  /\ result'[j].from = result'[i].from
                                  /\ result'[j].to = result'[i].to}} :
                     /\ Cardinality(same) = 4
                     /\ {result'[j].promotion : j \in same}
                           = {"queen", "rook", "bishop", "knight"}
       /\ (lastCall' = "makeMove" /\ result' = TRUE /\ LastRankPawnMove(Last(made'))) =>
            /\ Last(made').promotion # "none"
            /\ gameState'.position[Last(made').to]
                  = Pc(Last(made').promotion, gameState.activeColor)
       /\ NoPawnOnLastRank(gameState'.position)]_vars

\* C27: in games of moves taken from getLegalMoves(), the board holds exactly one
\* white king and one black king, no move of getLegalMoves() captures a king, and
\* a board of two pieces, as isGameOver finds it, holds the two kings.
C27_OneKingEach ==
    /\ Cardinality({sq \in 0..63 : gameState.position[sq] = WK}) = 1
    /\ Cardinality({sq \in 0..63 : gameState.position[sq] = BK}) = 1
    /\ lastCall = "getLegalMoves" =>
          \A i \in 1..Len(result) : result[i].captured.type # "king"
    /\ (lastCall = "isGameOver" /\ Cardinality(Pieces(gameState.position)) = 2) =>
          /\ Pieces(gameState.position) = Kings
          /\ result = GameResult("draw", "insufficient-material")

\* The king took the last pawn, and isGameOver found the two kings.
C27_Witness ==
    /\ lastCall = "isGameOver"
    /\ made = <<Capture(Sq(1, 6), Sq(2, 5), WK, BP)>>
    /\ Cardinality(Pieces(gameState.position)) = 2
    /\ result = GameResult("draw", "insufficient-material")

\* Neither the king of the color nor any piece has moved from or onto the corner
\* of the wing in the moves recorded since the start of the game
NeverMoved(record, color, wing) ==
    \A i \in 1..Len(record) :
       /\ record[i].piece # Pc("king", color)
       /\ record[i].from # RookCorner(color, wing)
       /\ record[i].to # RookCorner(color, wing)

\* C29: in games of moves taken from getLegalMoves(), the castling move of a wing
\* is among the legal moves only if neither the king nor the rook on the corner
\* of that wing has moved since the start of the game: no move of the king, and
\* no move from or onto the corner, is in the move history.
C29_CastlingNeedsUnmoved ==
    lastCall = "getLegalMoves" =>
       \A wing \in Wings :
          Among(CastlingMove(gameState.activeColor, wing), result)
             => NeverMoved(arrays[gameState.moveHistory], gameState.activeColor, wing)

\* isGameOver would report checkmate or stalemate
MateOrStalemate ==
    \E over \in {isGameOver(gameState, fenHistory)} :
       over # NoResult /\ over.reason \in {"checkmate", "stalemate"}

\* C28: from a state in which isGameOver reports checkmate or stalemate, every
\* makeMove call returns false and leaves the game state, the move history and
\* the repetition record unchanged, and every isGameOver call reports the same
\* checkmate or stalemate again; only reset leaves such a state.
C28_MateIsAbsorbing ==
    [][MateOrStalemate =>
         /\ lastCall' = "makeMove" =>
               /\ result' = FALSE
               /\ UNCHANGED <<gameState, fenHistory, arrays>>
         /\ lastCall' = "isGameOver" =>
               /\ result' = isGameOver(gameState, fenHistory)
               /\ UNCHANGED <<gameState, fenHistory, arrays>>
         /\ lastCall' \in {"makeMove", "isGameOver", "reset"}]_vars

\* After 2... Qh4 mate a makeMove call has returned false.
C28_Witness ==
    /\ lastCall = "makeMove"
    /\ result = FALSE
    /\ made = <<Quiet(Sq(3, 8), Sq(7, 4), BQ)>>
    /\ isGameOver(gameState, fenHistory) = GameResult("black", "checkmate")

\* C30: for every move of generateLegalMoves(state), ChessAI.makeMove,
\* ChessEngine.applyMove and MoveGenerator.makeMove give the same position, and
\* each gives the move to the other color.
C30_RoutinesAgree ==
    lastCall = "generateLegalMoves" =>
       \A i \in 1..Len(result) :
          \A simulated \in {ChessAI_makeMove(gameState, result[i]).state} :
             \A applied \in {applyMove(gameState, result[i])} :
                \A tried \in {MoveGenerator_makeMove(gameState, result[i])} :
                   /\ simulated.position = applied.position
                   /\ tried.position = applied.position
                   /\ simulated.activeColor = Opponent(gameState.activeColor)
                   /\ applied.activeColor = Opponent(gameState.activeColor)
                   /\ tried.activeColor = Opponent(gameState.activeColor)

----------------------------------------------------------------------------
(* The tables of the search *)

\* The state with other castling rights and another en-passant target
SameKeyStates(gs) ==
    {gs,
     [gs EXCEPT !.castlingRights = AllRights],
     [gs EXCEPT !.enPassantTarget = IF @ = NoSquare THEN Sq(3, 6) ELSE NoSquare]}

\* The windows a minimax call is tried with
Windows == {<<0 - Infinity, Infinity>>, <<0 - 50, 50>>, <<0, 0>>, <<200, 0 - 200>>}

\* C23: when the transposition table holds an entry for the key of the state with
\* a depth not below the depth requested, minimax returns the entry's score and
\* move and leaves both tables as they are, for every window, for both values of
\* the maximizing flag, at depth 0 as well, and for the states of the same
\* placement and active color with other castling rights or en-passant target.
C23_TableHit ==
    \A key \in {getPositionKey(gameState)} :
       key \in DOMAIN transpositionTable =>
          \A entry \in {transpositionTable[key]} :
             \A depth \in 0..entry.depth, window \in Windows,
                isMaximizing \in BOOLEAN, ply \in {0, 1},
                gs \in SameKeyStates(gameState) :
                   minimax(gs, depth, window[1], window[2], isMaximizing, ply,
                           transpositionTable, killerMoves)
                     = Searched(entry.score, entry.move, transpositionTable,
                                killerMoves, gs)

\* The table holds the entry written for the state whose en-passant capture was
\* open, its move being that capture, and the state at hand has no such target.
C23_Witness ==
    /\ gameState = EnPassantGone
    /\ getPositionKey(gameState) \in DOMAIN transpositionTable
    /\ transpositionTable[getPositionKey(gameState)].depth = 1
    /\ transpositionTable[getPositionKey(gameState)].move.enPassant

\* Ka1 and a pawn on b4 against Kc2 and a pawn on c5: white has the moves Ka2,
\* b4-b5 and b4xc5
ThreeMoves ==
    StateOf(PositionOf({<<Sq(0, 1), WK>>, <<Sq(1, 4), WP>>,
                        <<Sq(2, 2), BK>>, <<Sq(2, 5), BP>>}),
            "white", NoRights, NoSquare)

\* The plies of the minimax calls whose loop is followed: the last that has a
\* killer list and the first that has none
KillerPlies == {19, 20}

\* The windows of these calls: the widest, which no score closes, and one that
\* every score closes
KillerWindows == {<<0 - Infinity, Infinity>>, <<0, 0>>}

\* One turn of a minimax loop: what it was given and whether it ended in the break
LoopTurn(cutoff, move, ply, killers) ==
    [cutoff |-> cutoff, move |-> move, ply |-> ply, killerMoves |-> killers]

InitKiller ==
    /\ gameState \in {ThreeMoves, Mirror(ThreeMoves)}
    /\ fenHistory = <<>>
    /\ arrays = (1 :> <<>>)
    /\ snapshot = <<>>
    /\ lastCall = "new"
    /\ made = <<>>
    /\ ChessAI_new(TestConfig)
    /\ result = LoopTurn(FALSE, NoMove, 0, killerMoves)

\* One turn of the loop of a minimax call of depth 1 at some ply of a search, on
\* the tables of the instance: lines 78-102. result records the turn.
SearchMoveAt ==
    /\ \E ply \in KillerPlies, isMaximizing \in BOOLEAN, window \in KillerWindows :
         \E legalMoves \in {generateLegalMoves(gameState)} :
            \E i \in 1..Len(legalMoves) :
               \E turn \in {SearchMove(Searching(window[1], window[2],
                                                 IF isMaximizing THEN 0 - Infinity
                                                                 ELSE Infinity,
                                                 NoMove, transpositionTable,
                                                 killerMoves, gameState, FALSE),
                                       legalMoves[i], 1, isMaximizing, ply)} :
                  /\ killerMoves' = turn.killerMoves
                  /\ transpositionTable' = turn.transpositionTable
                  /\ gameState' = turn.arg
                  /\ result' = LoopTurn(turn.done, legalMoves[i], ply, killerMoves)
    /\ lastCall' = "minimax"
    /\ UNCHANGED <<fenHistory, arrays, snapshot, made, config, historyTable, timeUp>>

NextKiller == SearchMoveAt

SpecKiller == InitKiller /\ [][NextKiller]_vars

\* C24: every killer list has at most 2 entries, none of them a capture; a turn
\* that ends in the break with a non-capturing move at a ply below 20 puts that
\* move first in the list of its ply, keeps the entry that was first as the
\* second, and leaves the other lists as they were; a break with a capturing
\* move or at a ply of 20 or more, and a turn without break, leave every list
\* as it was.
C24_KillerMoves ==
    /\ \A ply \in DOMAIN killerMoves :
          /\ Len(killerMoves[ply]) <= 2
          /\ \A i \in 1..Len(killerMoves[ply]) : killerMoves[ply][i].captured = NoPiece
    /\ lastCall = "minimax" =>
          IF result.cutoff /\ result.move.captured = NoPiece /\ result.ply < 20
          THEN /\ killerMoves[result.ply][1] = result.move
               /\ Len(killerMoves[result.ply])
                     = Min(2, Len(result.killerMoves[result.ply]) + 1)
               /\ Len(result.killerMoves[result.ply]) > 0 =>
                     killerMoves[result.ply][2] = result.killerMoves[result.ply][1]
               /\ \A ply \in DOMAIN killerMoves \ {result.ply} :
                     killerMoves[ply] = result.killerMoves[ply]
          ELSE killerMoves = result.killerMoves

\* A third move was stored at ply 19, whose list was full: it is first, the one
\* that was first is second and the one that was second is gone.
C24_Witness ==
    /\ lastCall = "minimax"
    /\ result.cutoff
    /\ result.ply = 19
    /\ Len(result.killerMoves[19]) = 2
    /\ result.killerMoves[19][1] # result.move
    /\ result.killerMoves[19][2] # result.killerMoves[19][1]
    /\ killerMoves[19] = <<result.move, result.killerMoves[19][1]>>

----------------------------------------------------------------------------
(* The quiescence search, call by call *)

\* What a quiescence search did: the score it returned, the greatest depth of a
\* call, the greatest depth of a call that generated moves (0 - 1 if none did),
\* and the moves it expanded, each with the state it was generated in
Trace(score, deepest, generated, expanded) ==
    [score |-> score, deepest |-> deepest, generated |-> generated,
     expanded |-> expanded]

RECURSIVE QuiescenceTrace(_, _, _, _, _)
RECURSIVE TraceLoop(_, _, _, _, _, _, _)

\* The loop over the captures from captures[i] on (lines 137-148); trace is what
\* the call has done so far
TraceLoop(gs, captures, i, bounds, isMaximizing, depth, trace) ==
    IF bounds.done
    THEN Trace(bounds.score, trace.deepest, trace.generated, trace.expanded)
    ELSE IF i > Len(captures)
    THEN Trace(IF isMaximizing THEN bounds.alpha ELSE bounds.beta,
               trace.deepest, trace.generated, trace.expanded)
    ELSE The({The({
           TraceLoop(gs, captures, next, newBounds, isMaximizing, depth,
                     Trace(0, Max(trace.deepest, child.deepest),
                           Max(trace.generated, child.generated),
                           trace.expanded \cup child.expanded
                              \cup {<<gs, captures[i]>>})) :
             next \in {i + 1},
             newBounds \in {
               IF isMaximizing
               THEN IF child.score >= bounds.beta
                    THEN Bounds(bounds.alpha, bounds.beta, TRUE, bounds.beta)
                    ELSE Bounds(Max(bounds.alpha, child.score), bounds.beta, FALSE, 0)
               ELSE IF child.score <= bounds.alpha
                    THEN Bounds(bounds.alpha, bounds.beta, TRUE, bounds.alpha)
                    ELSE Bounds(bounds.alpha, Min(bounds.beta, child.score), FALSE, 0)}}) :
           child \in {QuiescenceTrace(ChessAI_makeMove(gs, captures[i]).state,
                                      bounds.alpha, bounds.beta, ~isMaximizing,
                                      depth + 1)}})

\* quiescenceSearch (lines 115-152), with what it did
QuiescenceTrace(gs, alpha, beta, isMaximizing, depth) ==
    IF depth > 10 THEN Trace(evaluatePosition(gs), depth, 0 - 1, {})
    ELSE The({
           IF isMaximizing /\ standPat >= beta THEN Trace(beta, depth, 0 - 1, {})
           ELSE IF ~isMaximizing /\ standPat <= alpha THEN Trace(alpha, depth, 0 - 1, {})
           ELSE The({TraceLoop(gs, captures, 1, bounds, isMaximizing, sameDepth,
                               Trace(0, sameDepth, sameDepth, {})) :
                       captures \in {Captures(generateLegalMoves(gs))},
                       bounds \in {IF isMaximizing
                                   THEN Bounds(Max(alpha, standPat), beta, FALSE, 0)
                                   ELSE Bounds(alpha, Min(beta, standPat), FALSE, 0)},
                       sameDepth \in {depth}}) :
           standPat \in {evaluatePosition(gs)}})

\* The depths of the quiescenceSearch calls followed: the call from minimax, and
\* the calls two, one and no ply before the cap and the call beyond it
QuiescenceDepths == {0, 9, 10, 11}

\* A quiescenceSearch call: its arguments and what it did
Quiesced(alpha, beta, isMaximizing, depth, trace) ==
    [alpha |-> alpha, beta |-> beta, isMaximizing |-> isMaximizing,
     depth |-> depth, trace |-> trace]

InitQuiescence ==
    /\ gameState \in SparseSearchStates
    /\ fenHistory = <<>>
    /\ arrays = (1 :> <<>>)
    /\ snapshot = <<>>
    /\ lastCall = "new"
    /\ result = NoMove
    /\ made = <<>>
    /\ ChessAI_new(TestConfig)

\* A quiescenceSearch call of a search, at some depth below the minimax call that
\* entered the quiescence search
QuiescenceSearch ==
    /\ \E depth \in QuiescenceDepths, window \in Windows, isMaximizing \in BOOLEAN :
          result' = Quiesced(window[1], window[2], isMaximizing, depth,
                             QuiescenceTrace(gameState, window[1], window[2],
                                             isMaximizing, depth))
    /\ lastCall' = "quiescenceSearch"
    /\ UNCHANGED <<gameState, fenHistory, arrays, snapshot, made>>
    /\ UNCHANGED aiVars

NextQuiescence ==
    \/ QuiescenceSearch
    \/ SearchGoesOn

SpecQuiescence == InitQuiescence /\ [][NextQuiescence]_vars

\* C25: a quiescenceSearch call ends with the score the search computes; every
\* move it expands is a legal move of the state it expands it in and captures a
\* piece; no call that generates moves is deeper than 10 plies below the call
\* from minimax and no call at all deeper than 11; a call beyond the 10 plies
\* returns evaluatePosition of its state, generates no moves and calls nothing.
C25_QuiescenceIsCapped ==
    lastCall = "quiescenceSearch" =>
       /\ result.trace.score
             = quiescenceSearch(gameState, result.alpha, result.beta,
                                result.isMaximizing, result.depth)
       /\ \A node \in result.trace.expanded :
             /\ node[2].captured # NoPiece
             /\ Among(node[2], generateLegalMoves(node[1]))
       /\ result.trace.generated <= 10
       /\ result.trace.deepest <= 11
       /\ result.depth > 10 =>
             /\ result.trace.score = evaluatePosition(gameState)
             /\ result.trace.generated = 0 - 1
             /\ result.trace.deepest = result.depth
             /\ result.trace.expanded = {}

\* A call 9 plies down expanded a capture and its recapture: the call 10 plies
\* down generated moves, and the call 11 plies down did not.
C25_Witness ==
    /\ lastCall = "quiescenceSearch"
    /\ result.depth = 9
    /\ result.trace.generated = 10
    /\ result.trace.deepest = 11
    /\ Cardinality(result.trace.expanded) >= 2

----------------------------------------------------------------------------
(* One instance over several difficulties *)

\* setDifficulty: const configs
configs ==
    [easy |-> [depth |-> 2, timeLimit |-> 1000,
               useOpeningBook |-> FALSE, useEndgameTablebase |-> FALSE],
     medium |-> [depth |-> 4, timeLimit |-> 3000,
                 useOpeningBook |-> TRUE, useEndgameTablebase |-> FALSE],
     hard |-> [depth |-> 6, timeLimit |-> 5000,
               useOpeningBook |-> TRUE, useEndgameTablebase |-> TRUE],
     expert |-> [depth |-> 8, timeLimit |-> 10000,
                 useOpeningBook |-> TRUE, useEndgameTablebase |-> TRUE]]

\* the iterations that a getBestMove call completes before the time is up
MaxIterations == 2

\* The game states passed to the instance
DifficultyStates == {QueenEnPrise, Exchange}

InitDifficulty ==
    /\ gameState \in DifficultyStates
    /\ fenHistory = <<>>
    /\ arrays = (1 :> <<>>)
    /\ snapshot = <<>>
    /\ lastCall = "new"
    /\ result = NoMove
    /\ made = <<>>
    /\ ChessAI_new([UIConfig EXCEPT !.depth = 1])

\* setDifficulty(level)
SetDifficulty ==
    /\ Len(made) < MaxCalls
    /\ \E level \in DOMAIN configs : config' = configs[level]
    /\ lastCall' = "setDifficulty"
    /\ result' = NoMove
    /\ UNCHANGED <<gameState, fenHistory, arrays, snapshot, made,
                   transpositionTable, killerMoves, historyTable, timeUp>>

\* await this.ai.getBestMove(gameState), the time being up before one of the
\* first iterations when config.depth is beyond them
GetBestMoveInTime ==
    /\ Len(made) < MaxCalls
    /\ \E timeUpAt \in 1..(Min(config.depth, MaxIterations) + 1) :
         \E searched \in {getBestMove(gameState, timeUpAt)} :
            /\ result' = searched.move
            /\ made' = Append(made, searched.move)
            /\ transpositionTable' = searched.transpositionTable
            /\ killerMoves' = searched.killerMoves
            /\ gameState' = searched.arg
            /\ timeUp' = timeUpAt
    /\ lastCall' = "getBestMove"
    /\ UNCHANGED <<fenHistory, arrays, snapshot, config, historyTable>>

\* The game goes on with the other state
DifficultyGoesOn ==
    /\ Len(made) < MaxCalls
    /\ gameState' \in DifficultyStates \ {gameState}
    /\ lastCall' = "getGameState"
    /\ result' = NoMove
    /\ UNCHANGED <<fenHistory, arrays, snapshot, made>>
    /\ UNCHANGED aiVars

NextDifficulty ==
    \/ SetDifficulty
    \/ GetBestMoveInTime
    \/ DifficultyGoesOn

SpecDifficulty == InitDifficulty /\ [][NextDifficulty]_vars

\* C26: over getBestMove and setDifficulty calls every key of the transposition
\* table stays in it, and its entry either stays as it is or is replaced by one
\* of a strictly greater depth.
C26_TableOnlyGrows ==
    [][\A key \in DOMAIN transpositionTable :
          /\ key \in DOMAIN transpositionTable'
          /\ \/ transpositionTable'[key] = transpositionTable[key]
             \/ transpositionTable'[key].depth > transpositionTable[key].depth]_vars

\* After setDifficulty('medium') a second call has ended: the table holds the
\* entry of depth 2 of its state and the entry the first call wrote for the
\* other state.
C26_Witness ==
    /\ lastCall = "getBestMove"
    /\ Len(made) = 2
    /\ config = configs.medium
    /\ timeUp = 3
    /\ getPositionKey(gameState) \in DOMAIN transpositionTable
    /\ transpositionTable[getPositionKey(gameState)].depth = 2
    /\ \E other \in DifficultyStates \ {gameState} :
          getPositionKey(other) \in DOMAIN transpositionTable

=============================================================================
